---- MODULE Spec2Model ----
(***************************************************************************)
(* A model of the robustness evaluation engine of IndiRobust:              *)
(*   - the metrics layer            (src/evaluation/metrics.py),           *)
(*   - the evaluation orchestrator  (src/evaluation/evaluator.py,          *)
(*     evaluate_classification.py, evaluate_nli.py, reporting.py and the   *)
(*     cell loop of src/scripts/run_experiment.py),                        *)
(*   - the consistency and error analysis (src/analysis/consistency.py,    *)
(*     src/analysis/error_analysis.py).                                    *)
(*                                                                         *)
(* Three specifications share the variables; each leaves the variables of  *)
(* the other components at their idle value:                               *)
(*   Spec          one run_experiment: cells, evaluate_task, files written *)
(*   SpecAnalysis  analyze_pair / run_deep_error_analysis on two tables    *)
(*   SpecMetrics   calculate_classification_metrics on two label lists     *)
(*                                                                         *)
(* Python floats are modelled as exact reduced fractions <<num, den>>.     *)
(* The only float identity a claim relies on is (1.0 - x) + x == 1.0 for   *)
(* x = k/n in [0, 1]; it is exact in IEEE-754 doubles (for x >= 0.5 the    *)
(* subtraction is exact, for x < 0.5 its rounding error is at most half an *)
(* ulp of 1.0 and the sum rounds back to 1.0), so the fractions agree with *)
(* the doubles there.                                                      *)
(***************************************************************************)
EXTENDS Integers, Sequences, FiniteSets, TLC

(***************************************************************************)
(* Bounds of the model.                                                    *)
(***************************************************************************)
\* longest dataset handed to run_experiment / evaluate_task
MaxExamples == 2
\* most rows of a prediction table handed to the analysis; ids are 1..MaxRows
MaxRows == 2
\* longest label list handed to calculate_classification_metrics
MaxLen == 3

\* the longest text handed to a perturbation generator, in characters
MaxText == 3

\* most generator calls of one caller
MaxCalls == 2

\* most examples of the tables handed to the error analyses
MaxDeepRows == 6

\* most prediction tables of a directory whose names are taken apart
MaxFiles == 2

(***************************************************************************)
(* Values.                                                                 *)
(***************************************************************************)
\* the class labels, in the order sklearn sorts them (np.unique)
LabelOrder == <<"A", "B", "C">>

\* the labels the enumerated datasets and tables use
Labels == {"A", "B"}

\* a Python dict with no key
EmptyDict == [k \in {} |-> 0]

\* d[k] = v, as a new dict
Put(d, k, v) == [x \in (DOMAIN d) \cup {k} |-> IF x = k THEN v ELSE d[x]]

Range(s) == {s[i] : i \in DOMAIN s}

\* all sequences over S of length at most n
SeqsUpTo(S, n) == UNION {[1..k -> S] : k \in 0..n}

\* pandas DataFrame.head(n) / list slicing [:n]
Head_n(s, n) == SubSeq(s, 1, IF Len(s) < n THEN Len(s) ELSE n)

(***************************************************************************)
(* Floats as reduced fractions.                                            *)
(***************************************************************************)
Abs(n) == IF n < 0 THEN -n ELSE n

RECURSIVE GCD(_, _)
GCD(a, b) == IF b = 0 THEN a ELSE GCD(b, a % b)

\* the fraction n/d (d > 0), reduced
Rat(n, d) == LET g == GCD(Abs(n), d) IN <<n \div g, d \div g>>

Zero == Rat(0, 1)
One == Rat(1, 1)
RatAdd(a, b) == Rat(a[1] * b[2] + b[1] * a[2], a[2] * b[2])
RatSub(a, b) == Rat(a[1] * b[2] - b[1] * a[2], a[2] * b[2])
RatMul(a, b) == Rat(a[1] * b[1], a[2] * b[2])
\* a / b for b > 0
RatDiv(a, b) == Rat(a[1] * b[2], a[2] * b[1])
RatGt(a, b) == a[1] * b[2] > b[1] * a[2]

(***************************************************************************)
(* str(int) and back: the id column.  The loader writes id = str(idx)      *)
(* (indicglue.py:62); to_csv stores that text; pd.read_csv parses a column *)
(* of decimal numerals as int64 and astype(str) prints it again.           *)
(***************************************************************************)
DigitChar == <<"0", "1", "2", "3", "4", "5", "6", "7", "8", "9">>

RECURSIVE IntToStr(_)
IntToStr(n) == IF n < 10 THEN DigitChar[n + 1]
               ELSE IntToStr(n \div 10) \o DigitChar[(n % 10) + 1]

\* the ids the enumerated tables use: str(idx) for idx in 1..MaxRows
IdValues == 1..MaxRows
IdCells == {IntToStr(i) : i \in IdValues}

\* read_csv's value of an id cell holding a decimal numeral
read_csv_id(cell) == CHOOSE n \in 0..99 : IntToStr(n) = cell

\* df['id'] = df['id'].astype(str)
astype_str(n) == IntToStr(n)

(***************************************************************************)
(* src/evaluation/metrics.py: calculate_classification_metrics, with the   *)
(* sklearn functions it calls.                                             *)
(***************************************************************************)
Raise(e) == [raised |-> TRUE, error |-> e]
Return(v) == [raised |-> FALSE, value |-> v]

\* sklearn.metrics.accuracy_score
accuracy_score(y_true, y_pred) ==
    Rat(Cardinality({i \in DOMAIN y_true : y_true[i] = y_pred[i]}), Len(y_true))

\* the sorted distinct labels of y_true and y_pred (sklearn unique_labels)
unique_labels(y_true, y_pred) ==
    SelectSeq(LabelOrder, LAMBDA l : l \in Range(y_true) \cup Range(y_pred))

\* one class's F1 with zero_division=0
f1_of_class(y_true, y_pred, l) ==
    LET tp == Cardinality({i \in DOMAIN y_true : y_true[i] = l /\ y_pred[i] = l})
        fp == Cardinality({i \in DOMAIN y_true : y_true[i] # l /\ y_pred[i] = l})
        fn == Cardinality({i \in DOMAIN y_true : y_true[i] = l /\ y_pred[i] # l})
        precision == IF tp + fp = 0 THEN Zero ELSE Rat(tp, tp + fp)
        recall == IF tp + fn = 0 THEN Zero ELSE Rat(tp, tp + fn)
    IN  IF RatAdd(precision, recall) = Zero THEN Zero
        ELSE RatDiv(RatMul(Rat(2, 1), RatMul(precision, recall)),
                    RatAdd(precision, recall))

RECURSIVE RatSum(_)
RatSum(s) == IF s = <<>> THEN Zero ELSE RatAdd(Head(s), RatSum(Tail(s)))

\* sklearn.metrics.f1_score(average='macro', zero_division=0)
f1_score_macro(y_true, y_pred) ==
    LET ls == unique_labels(y_true, y_pred)
    IN  RatDiv(RatSum([i \in DOMAIN ls |-> f1_of_class(y_true, y_pred, ls[i])]),
               Rat(Len(ls), 1))

\* sklearn.metrics.confusion_matrix(...).tolist()
confusion_matrix(y_true, y_pred) ==
    LET ls == unique_labels(y_true, y_pred)
    IN  [r \in DOMAIN ls |->
            [c \in DOMAIN ls |->
                Cardinality({i \in DOMAIN y_true :
                                y_true[i] = ls[r] /\ y_pred[i] = ls[c]})]]

calculate_classification_metrics(references, predictions) ==
    IF Len(references) # Len(predictions)
    THEN Raise("ValueError: Length mismatch")
    ELSE IF Len(references) = 0
    THEN Return([accuracy |-> Zero, f1_macro |-> Zero])
    ELSE Return([accuracy |-> accuracy_score(references, predictions),
                 f1_macro |-> f1_score_macro(references, predictions),
                 confusion_matrix |-> confusion_matrix(references, predictions)])

(***************************************************************************)
(* src/evaluation/metrics.py: calculate_consistency and                    *)
(* calculate_robustness_summary.                                           *)
(***************************************************************************)
\* zip(clean_preds, perturbed_preds): the positions both lists have
zip_positions(clean_preds, perturbed_preds) ==
    {i \in DOMAIN clean_preds : i \in DOMAIN perturbed_preds}

\* the pairs that differ counted instead
agreements_of_unequal(clean_preds, perturbed_preds) ==
    Cardinality({i \in zip_positions(clean_preds, perturbed_preds) :
                    clean_preds[i] # perturbed_preds[i]})

\* line 77: sum(1 for c, p in zip(...) if c == p)
agreements(clean_preds, perturbed_preds) ==
    Cardinality({i \in zip_positions(clean_preds, perturbed_preds) :
                    clean_preds[i] = perturbed_preds[i]})

\* the length test of line 72 left out
calculate_consistency_unchecked(clean_preds, perturbed_preds) ==
    IF Len(clean_preds) = 0 THEN Zero
    ELSE Rat(agreements(clean_preds, perturbed_preds), Len(clean_preds))

calculate_consistency(clean_preds, perturbed_preds) ==
    IF Len(clean_preds) # Len(perturbed_preds) THEN Zero
    ELSE IF Len(clean_preds) = 0 THEN Zero
    ELSE Rat(agreements(clean_preds, perturbed_preds), Len(clean_preds))

\* d.get(k, default)
dict_get(d, k, default) == IF k \in DOMAIN d THEN d[k] ELSE default

\* a / b of two floats
float_div(a, b) ==
    IF b = Zero THEN Raise("ZeroDivisionError") ELSE Return(RatDiv(a, b))

\* the division without the test on the clean value
rel_drop_unguarded(clean, pert) == float_div(RatSub(clean, pert), clean)

\* lines 112, 120: (clean - pert) / clean if clean > 0 else 0.0
rel_drop(clean, pert) ==
    IF RatGt(clean, Zero) THEN float_div(RatSub(clean, pert), clean)
    ELSE Return(Zero)

\* consistency_score=None: no float (floats have a positive denominator)
None == <<0, 0>>

calculate_robustness_summary(clean_metrics, perturbed_metrics, consistency_score) ==
    LET clean_acc == dict_get(clean_metrics, "accuracy", Zero)
        pert_acc == dict_get(perturbed_metrics, "accuracy", Zero)
        clean_f1 == dict_get(clean_metrics, "f1_macro", Zero)
        pert_f1 == dict_get(perturbed_metrics, "f1_macro", Zero)
        rel_acc == rel_drop(clean_acc, pert_acc)
        rel_f1 == rel_drop(clean_f1, pert_f1)
    IN  IF rel_acc.raised THEN rel_acc
        ELSE IF rel_f1.raised THEN rel_f1
        ELSE Return([acc_clean |-> clean_acc,
                     acc_perturbed |-> pert_acc,
                     abs_drop_acc |-> RatSub(clean_acc, pert_acc),
                     rel_drop_acc |-> rel_acc.value,
                     f1_clean |-> clean_f1,
                     f1_perturbed |-> pert_f1,
                     abs_drop_f1 |-> RatSub(clean_f1, pert_f1),
                     rel_drop_f1 |-> rel_f1.value]
                    @@ (IF consistency_score = None THEN EmptyDict
                        ELSE [consistency |-> consistency_score]))

(***************************************************************************)
(* Prediction tables on disk, as Evaluator._save_predictions writes them   *)
(* (columns id, text, label, prediction, score).  The analysis reads the   *)
(* columns id, label, prediction and score; the text column is carried     *)
(* along and read by no statistic, and is left out of the analysis tables. *)
(***************************************************************************)
\* the ground-truth label of the example with a given idx
truth(i) == LabelOrder[((i - 1) % 2) + 1]

\* the confidence the enumerated tables carry
TableScore == Rat(19, 20)

TableRow(i, p) ==
    [id |-> IntToStr(i), label |-> truth(i), prediction |-> p, score |-> TableScore]

TableRows == {TableRow(i, p) : i \in IdValues, p \in Labels}

Tables == SeqsUpTo(TableRows, MaxRows)

\* a path of the results directory holds a table, holds something that
\* pd.read_csv cannot read, or does not exist
CsvFiles == {[state |-> "ok", rows |-> t] : t \in Tables}
            \cup {[state |-> "unreadable"], [state |-> "missing"]}

\* file names {task}_{perturbation}_{lang}_preds.csv, as their '_'-separated
\* parts before the _preds.csv suffix
CleanName == <<"t", "clean", "hi">>
PertName == <<"t", "noise", "hi">>
PredNames == {CleanName, PertName}

\* the output_path argument of analyze_pair: None, or a path below a
\* directory as run_analysis_on_directory builds it (consistency.py:135-136)
NoPath == "None"
ReportPath == "analysis/consistency_reports/consistency_t_noise_hi.json"
OutputPaths == {NoPath, ReportPath}

NoReport == [written |-> FALSE]

HasUniqueIds(t) == \A i, j \in DOMAIN t : t[i].id = t[j].id => i = j

IdsOf(t) == {t[i].id : i \in DOMAIN t}

(***************************************************************************)
(* src/analysis/consistency.py: ConsistencyAnalyzer.analyze_pair           *)
(***************************************************************************)
\* pd.read_csv(path) followed by df['id'] = df['id'].astype(str)
read_predictions(file) ==
    [i \in DOMAIN file.rows |->
        [file.rows[i] EXCEPT !.id = astype_str(read_csv_id(file.rows[i].id))]]

joined_row(l, r) ==
    [id |-> l.id,
     label_clean |-> l.label, prediction_clean |-> l.prediction,
     score_clean |-> l.score,
     label_pert |-> r.label, prediction_pert |-> r.prediction,
     score_pert |-> r.score]

\* how='left': a left row without partner is kept, its right columns NaN
NaN == "NaN"
left_only_row(l) ==
    [id |-> l.id,
     label_clean |-> l.label, prediction_clean |-> l.prediction,
     score_clean |-> l.score,
     label_pert |-> NaN, prediction_pert |-> NaN, score_pert |-> NaN]

RECURSIVE merge_left(_, _)
merge_left(left, right) ==
    IF left = <<>> THEN <<>>
    ELSE LET l == Head(left)
             matches == SelectSeq(right, LAMBDA r : r.id = l.id)
         IN  (IF matches = <<>> THEN <<left_only_row(l)>>
              ELSE [j \in DOMAIN matches |-> joined_row(l, matches[j])])
             \o merge_left(Tail(left), right)

\* pd.merge(left, right, on='id', suffixes=('_clean', '_pert'), how='inner'):
\* every pair of a left and a right row with equal id, in the order of the
\* left rows
RECURSIVE merge_on_id(_, _)
merge_on_id(left, right) ==
    IF left = <<>> THEN <<>>
    ELSE LET l == Head(left)
             matches == SelectSeq(right, LAMBDA r : r.id = l.id)
         IN  [j \in DOMAIN matches |-> joined_row(l, matches[j])]
             \o merge_on_id(Tail(left), right)

\* the perturbed prediction compared with the label column
with_is_consistent_vs_label(merged) ==
    [i \in DOMAIN merged |->
        merged[i] @@ [is_consistent |->
                        merged[i].label_clean = merged[i].prediction_pert]]

\* merged['is_consistent'] = merged['prediction_clean'] == merged['prediction_pert']
with_is_consistent(merged) ==
    [i \in DOMAIN merged |->
        merged[i] @@ [is_consistent |->
                        merged[i].prediction_clean = merged[i].prediction_pert]]

\* len(col) in place of col.sum()
sum_true_as_len(col) == Len(col)

\* merged['is_consistent'].sum()
RECURSIVE sum_true(_)
sum_true(col) ==
    IF col = <<>> THEN 0
    ELSE (IF Head(col) THEN 1 ELSE 0) + sum_true(Tail(col))

\* 1.0 - x in double precision.  A fraction <<num, den>> stands for the
\* double nearest to it; <<num, den, u>> for the double u units in the last
\* place above that one.  For x = c / t the double 1.0 - x is not always the
\* double nearest to (t - c) / t: the table lists by how many units it
\* misses it, for the fractions with t up to 9, the most rows a join of the
\* tables here has (1.0 - 2/3 is 0.33333333333333337, 1/3 is
\* 0.3333333333333333).
OneMinusResidue ==
    (<<1, 3>> :> 1) @@ (<<2, 3>> :> 1) @@ (<<4, 5>> :> -2) @@ (<<5, 6>> :> -1)
    @@ (<<1, 7>> :> 1) @@ (<<4, 7>> :> 1) @@ (<<6, 7>> :> 2) @@ (<<8, 9>> :> 4)

\* the subtraction taken as exact
float_one_minus_exact(x) == RatSub(One, x)

float_one_minus(x) ==
    LET r == RatSub(One, x)
    IN  IF x \in DOMAIN OneMinusResidue
        THEN <<r[1], r[2], OneMinusResidue[x]>>
        ELSE r

\* the fraction a double is nearest to, up to the units of the last place
nearest_fraction(a) == <<a[1], a[2]>>

\* a + b in double precision for a = 1.0 - x and b = x: the sum is the
\* double 1.0 for every x of the table, the residue of a is rounded away
float_add(a, b) == RatAdd(nearest_fraction(a), nearest_fraction(b))

\* flip_rate = 1.0 - consistent_count: the division forgotten
stats_flip_rate_undivided(merged) ==
    LET total == Len(merged)
        consistent_count == sum_true([i \in DOMAIN merged |-> merged[i].is_consistent])
        consistency == Rat(consistent_count, total)
        flip_rate == RatSub(One, Rat(consistent_count, 1))
    IN  [total_samples |-> total,
         consistent_count |-> consistent_count,
         flipped_count |-> total - consistent_count,
         consistency_score |-> consistency,
         flip_rate |-> flip_rate]

\* lines 48-59: the stats of a non-empty joined frame
consistency_stats(merged) ==
    LET total == Len(merged)
        consistent_count == sum_true([i \in DOMAIN merged |-> merged[i].is_consistent])
        consistency == Rat(consistent_count, total)
        flip_rate == float_one_minus(consistency)
    IN  [total_samples |-> total,
         consistent_count |-> consistent_count,
         flipped_count |-> total - consistent_count,
         consistency_score |-> consistency,
         flip_rate |-> flip_rate]

\* _save_detailed_report: the JSON document written to output_path
detailed_report(merged, stats) ==
    [written |-> TRUE,
     summary |-> stats,
     details |-> [i \in DOMAIN merged |->
                    [id |-> merged[i].id,
                     label |-> merged[i].label_clean,
                     clean_prediction |-> merged[i].prediction_clean,
                     perturbed_prediction |-> merged[i].prediction_pert,
                     is_consistent |-> merged[i].is_consistent]]]

\* the exception left to propagate
on_analysis_error_reraise ==
    [raised |-> TRUE, ret |-> EmptyDict, merged |-> <<>>, report |-> NoReport]

\* the except branch: log the error and return {}
on_analysis_error ==
    [raised |-> FALSE, ret |-> EmptyDict, merged |-> <<>>, report |-> NoReport]

\* analyze_pair(clean_preds_path, pert_preds_path, output_path): what it
\* returns, the joined frame it built and the report it wrote
analyze_pair(clean_file, pert_file, output_path) ==
    IF clean_file.state # "ok" \/ pert_file.state # "ok"
    THEN on_analysis_error
    ELSE LET merged == merge_on_id(read_predictions(clean_file),
                                   read_predictions(pert_file))
         IN  IF Len(merged) = 0
             THEN [raised |-> FALSE,
                   ret |-> [consistency |-> Zero, flip_rate |-> Zero,
                            total_samples |-> 0],
                   merged |-> merged, report |-> NoReport]
             ELSE LET flagged == with_is_consistent(merged)
                      stats == consistency_stats(flagged)
                  IN  [raised |-> FALSE, ret |-> stats, merged |-> flagged,
                       report |-> IF output_path # NoPath
                                  THEN detailed_report(flagged, stats)
                                  ELSE NoReport]

(***************************************************************************)
(* src/analysis/error_analysis.py: run_deep_error_analysis                 *)
(***************************************************************************)
\* high_conf_threshold's default
DefaultThreshold == Rat(9, 10)

\* flips.head(5) and high_conf.head(5)
QualitativeCap == 5

\* sep.join(parts)
RECURSIVE join_parts(_, _)
join_parts(parts, sep) ==
    IF parts = <<>> THEN ""
    ELSE IF Len(parts) = 1 THEN parts[1]
    ELSE parts[1] \o sep \o join_parts(Tail(parts), sep)

join_underscore(parts) == join_parts(parts, "_")

\* lines 29-32: basename.replace('_preds.csv', '').split('_')
parse_preds_name(parts) ==
    [task |-> parts[1],
     lang |-> parts[Len(parts)],
     pert |-> join_underscore(SubSeq(parts, 2, Len(parts) - 1))]

flip_case(task, lang, pert_name, row) ==
    [type |-> "prediction_flip", task |-> task, language |-> lang,
     perturbation |-> pert_name, id |-> row.id,
     pred_clean |-> row.prediction_clean, pred_perturbed |-> row.prediction_pert,
     ground_truth |-> row.label_clean]

high_conf_case(task, lang, pert_name, row) ==
    [type |-> "high_confidence_failure", task |-> task, language |-> lang,
     perturbation |-> pert_name, id |-> row.id,
     prediction |-> row.prediction_pert, confidence |-> row.score_pert,
     ground_truth |-> row.label_pert]

\* the confidence compared with >= instead of >
cases_of_pair_at_least(task, lang, pert_name, clean_df, pert_df, threshold) ==
    LET merged == merge_on_id(clean_df, pert_df)
        flips == SelectSeq(merged,
                    LAMBDA r : r.prediction_clean # r.prediction_pert)
        high_conf == SelectSeq(merged,
                    LAMBDA r : r.prediction_pert # r.label_pert
                               /\ ~RatGt(threshold, r.score_pert))
        f == Head_n(flips, QualitativeCap)
        h == Head_n(high_conf, QualitativeCap)
    IN  [i \in DOMAIN f |-> flip_case(task, lang, pert_name, f[i])]
        \o [i \in DOMAIN h |-> high_conf_case(task, lang, pert_name, h[i])]

\* every flip and every high-confidence failure kept
cases_of_pair_uncapped(task, lang, pert_name, clean_df, pert_df, threshold) ==
    LET merged == merge_on_id(clean_df, pert_df)
        f == SelectSeq(merged,
                    LAMBDA r : r.prediction_clean # r.prediction_pert)
        h == SelectSeq(merged,
                    LAMBDA r : r.prediction_pert # r.label_pert
                               /\ RatGt(r.score_pert, threshold))
    IN  [i \in DOMAIN f |-> flip_case(task, lang, pert_name, f[i])]
        \o [i \in DOMAIN h |-> high_conf_case(task, lang, pert_name, h[i])]

\* lines 60-106: the error cases one perturbed table adds
cases_of_pair(task, lang, pert_name, clean_df, pert_df, threshold) ==
    LET merged == merge_on_id(clean_df, pert_df)
        flips == SelectSeq(merged,
                    LAMBDA r : r.prediction_clean # r.prediction_pert)
        high_conf == SelectSeq(merged,
                    LAMBDA r : r.prediction_pert # r.label_pert
                               /\ RatGt(r.score_pert, threshold))
        f == Head_n(flips, QualitativeCap)
        h == Head_n(high_conf, QualitativeCap)
    IN  [i \in DOMAIN f |-> flip_case(task, lang, pert_name, f[i])]
        \o [i \in DOMAIN h |-> high_conf_case(task, lang, pert_name, h[i])]

\* the except branch of a (task, language) cell: print and go on
on_cell_error == [raised |-> FALSE, cases |-> <<>>]

\* lines 41-109 for one (task, language) of the directory: the files that
\* exist are globbed and parsed; without a clean table the cell is skipped
deep_cell(dir, threshold) ==
    LET found == {n \in DOMAIN dir : dir[n].state # "missing"}
        cleans == {n \in found : parse_preds_name(n).pert = "clean"}
        others == {n \in found : parse_preds_name(n).pert # "clean"}
    IN  IF cleans = {} THEN [raised |-> FALSE, cases |-> <<>>]
        ELSE LET c == CHOOSE n \in cleans : TRUE
             IN  IF dir[c].state # "ok" THEN on_cell_error
                 ELSE IF others = {} THEN [raised |-> FALSE, cases |-> <<>>]
                 ELSE LET o == CHOOSE n \in others : TRUE
                      IN  IF dir[o].state # "ok" THEN on_cell_error
                          ELSE [raised |-> FALSE,
                                cases |-> cases_of_pair(
                                    parse_preds_name(c).task,
                                    parse_preds_name(c).lang,
                                    parse_preds_name(o).pert,
                                    read_predictions(dir[c]),
                                    read_predictions(dir[o]),
                                    threshold)]

\* run_deep_error_analysis(results_dir, output_file, high_conf_threshold):
\* whether it raised, and the error cases it saved to output_file
run_deep_error_analysis(dir, threshold) ==
    LET cell == deep_cell(dir, threshold)
    IN  IF cell.raised
        THEN [raised |-> TRUE, saved |-> FALSE, error_cases |-> <<>>]
        ELSE [raised |-> FALSE, saved |-> TRUE, error_cases |-> cell.cases]

(***************************************************************************)
(* src/scripts/analyze_errors.py: analyze_errors for a results directory   *)
(* holding the clean and the perturbed table of one (task, language).      *)
(***************************************************************************)
\* sample_size=5
DefaultSampleSize == 5

\* lines 42-91 up to the sampling: the counts of the cell and its flips;
\* the reads are not guarded, a file that cannot be read raises
analyze_errors_cell(dir) ==
    LET found == {n \in DOMAIN dir : dir[n].state # "missing"}
        cleans == {n \in found : parse_preds_name(n).pert = "clean"}
        others == {n \in found : parse_preds_name(n).pert # "clean"}
    IN  IF cleans = {} THEN [raised |-> FALSE, reported |-> FALSE]
        ELSE LET c == CHOOSE n \in cleans : TRUE
             IN  IF dir[c].state # "ok" THEN [raised |-> TRUE, reported |-> FALSE]
                 ELSE IF others = {} THEN [raised |-> FALSE, reported |-> FALSE]
                 ELSE LET o == CHOOSE n \in others : TRUE
                      IN  IF dir[o].state # "ok"
                          THEN [raised |-> TRUE, reported |-> FALSE]
                          ELSE LET merged == merge_on_id(read_predictions(dir[c]),
                                                         read_predictions(dir[o]))
                                   flips == SelectSeq(merged,
                                       LAMBDA r : r.prediction_clean # r.prediction_pert)
                               IN  [raised |-> FALSE, reported |-> TRUE,
                                    total_samples |-> Len(merged),
                                    flip_count |-> Len(flips),
                                    flip_rate |-> IF Len(merged) > 0
                                                  THEN Rat(Len(flips), Len(merged))
                                                  ELSE Zero,
                                    flips |-> flips]

\* lines 78-84: one sampled row
sample_row(row) ==
    [id |-> row.id, label |-> row.label_clean, clean_pred |-> row.prediction_clean,
     pert_pred |-> row.prediction_pert]

\* flips.sample(min(len(flips), sample_size), random_state=42): the rows at
\* some min(len(flips), sample_size) positions; which ones, and their order,
\* is numpy's choice
SamplePositions(flips, sample_size) ==
    {P \in SUBSET DOMAIN flips :
        Cardinality(P) = (IF Len(flips) < sample_size THEN Len(flips)
                          ELSE sample_size)}

(***************************************************************************)
(* File names of prediction tables as sequences of characters: how         *)
(* Evaluator._save_predictions builds them and how the analyses take them  *)
(* apart.                                                                  *)
(***************************************************************************)
Underscore == <<"_">>

\* '_preds.csv'
PredsSuffix == <<"_", "p", "r", "e", "d", "s", ".", "c", "s", "v">>

\* 'clean'
CleanWord == <<"c", "l", "e", "a", "n">>

\* '_clean_'
CleanInfix == Underscore \o CleanWord \o Underscore

\* s[i:].startswith(sub), i counted from 1
occurs_at(s, sub, i) ==
    /\ i >= 1
    /\ i + Len(sub) - 1 <= Len(s)
    /\ SubSeq(s, i, i + Len(sub) - 1) = sub

\* str.startswith / str.endswith
starts_with(s, sub) == occurs_at(s, sub, 1)

ends_with(s, sub) == occurs_at(s, sub, Len(s) - Len(sub) + 1)

\* the places where sub occurs in s
occurrences(s, sub) == {i \in 1..Len(s) : occurs_at(s, sub, i)}

Min(S) == CHOOSE x \in S : \A y \in S : x <= y

Max(S) == CHOOSE x \in S : \A y \in S : x >= y

\* s.replace(old, new): the occurrences replaced from the left, none
\* overlapping
RECURSIVE str_replace(_, _, _)
str_replace(s, old, new) ==
    IF s = <<>> THEN <<>>
    ELSE IF starts_with(s, old)
         THEN new \o str_replace(SubSeq(s, Len(old) + 1, Len(s)), old, new)
         ELSE <<Head(s)>> \o str_replace(Tail(s), old, new)

\* s.split(sep)
RECURSIVE split_sep(_, _)
split_sep(s, sep) ==
    IF occurrences(s, sep) = {} THEN <<s>>
    ELSE LET i == Min(occurrences(s, sep))
         IN  <<SubSeq(s, 1, i - 1)>>
             \o split_sep(SubSeq(s, i + Len(sep), Len(s)), sep)

\* s.rsplit(sep, 1)[0]
rsplit_once_head(s, sep) ==
    IF occurrences(s, sep) = {} THEN s
    ELSE SubSeq(s, 1, Max(occurrences(s, sep)) - 1)

\* sep.join(parts)
RECURSIVE join_chars(_, _)
join_chars(parts, sep) ==
    IF parts = <<>> THEN <<>>
    ELSE IF Len(parts) = 1 THEN parts[1]
    ELSE parts[1] \o sep \o join_chars(Tail(parts), sep)

\* evaluator.py line 119: f"{task}_{perturbation}_{lang}_preds.csv"
preds_filename(task, perturbation, lang) ==
    task \o Underscore \o perturbation \o Underscore \o lang \o PredsSuffix

\* [task, ..., lang] taken apart: lang = parts[-1], task = parts[0],
\* perturbation = "_".join(parts[1:-1])
triple_of_parts(parts) ==
    [task |-> parts[1],
     lang |-> parts[Len(parts)],
     perturbation |-> join_chars(SubSeq(parts, 2, Len(parts) - 1), Underscore)]

\* analyze_errors.py lines 31-36
analyze_errors_parse(basename) ==
    triple_of_parts(split_sep(rsplit_once_head(basename, PredsSuffix), Underscore))

\* error_analysis.py lines 29-32
deep_parse(basename) ==
    triple_of_parts(split_sep(str_replace(basename, PredsSuffix, <<>>), Underscore))

\* glob "*_preds.csv"
glob_preds(names) == {n \in names : ends_with(n, PredsSuffix)}

\* glob "*_clean_*_preds.csv"
glob_clean(names) ==
    {n \in names :
        /\ ends_with(n, PredsSuffix)
        /\ \E i \in occurrences(n, CleanInfix) :
              i + Len(CleanInfix) <= Len(n) - Len(PredsSuffix) + 1}

\* glob f"{task}_*_{lang}_preds.csv"
glob_task_lang(names, task, lang) ==
    LET prefix == task \o Underscore
        suffix == Underscore \o lang \o PredsSuffix
    IN  {n \in names : /\ starts_with(n, prefix)
                       /\ ends_with(n, suffix)
                       /\ Len(n) >= Len(prefix) + Len(suffix)}

\* consistency.py lines 112-113: task and lang of a clean file
directory_parse_clean(basename) ==
    LET parts == split_sep(basename, CleanInfix)
    IN  [task |-> parts[1], lang |-> str_replace(parts[2], PredsSuffix, <<>>)]

\* consistency.py line 130: the perturbation name of a counterpart
directory_parse_pert(basename, task, lang) ==
    str_replace(str_replace(basename, task \o Underscore, <<>>),
                Underscore \o lang \o PredsSuffix, <<>>)

\* consistency.py lines 105-133: the pairs run_analysis_on_directory
\* analyses, each with the task, language and perturbation it reads off
\* the names
directory_pairs(names) ==
    UNION {LET c == directory_parse_clean(clean)
           IN  {[clean_file |-> clean, pert_file |-> pert,
                 task |-> c.task, lang |-> c.lang,
                 perturbation |-> directory_parse_pert(pert, c.task, c.lang)] :
                  pert \in glob_task_lang(names, c.task, c.lang) \ {clean}} :
           clean \in glob_clean(names)}

(***************************************************************************)
(* src/data/loaders/indicglue.py: the examples run_experiment evaluates.   *)
(***************************************************************************)
\* the languages of the raw rows; a row may carry no language
Languages == {"hi", "bn"}

\* a raw row of the loaded split, as far as the loader reads it
RawExamples == {[label |-> y] : y \in Labels}
               \cup {[label |-> y, language |-> l] : y \in Labels, l \in Languages}

\* _standardize_example for the row with index idx
standardize_example(idx, example, task_name, task_type) ==
    LET std == [task |-> task_name,
                label |-> example.label,
                id |-> IntToStr(idx),
                language |-> IF "language" \in DOMAIN example
                             THEN example.language ELSE "unknown"]
    IN  IF task_type = "classification"
        THEN std @@ [text |-> "text" \o IntToStr(idx)]
        ELSE IF task_type = "nli"
        THEN std @@ [premise |-> "premise" \o IntToStr(idx),
                     hypothesis |-> "hypothesis" \o IntToStr(idx)]
        ELSE std

\* loader.load_task and run_experiment lines 51-61: the clean data of a task
load_clean_data(rows, task_name, task_type) ==
    [i \in DOMAIN rows |-> standardize_example(i, rows[i], task_name, task_type)]

\* scripts.run_benchmark.apply_perturbation: the text fields rewritten, id,
\* language and label kept
apply_perturbation(data, p_type, level) ==
    [i \in DOMAIN data |->
        [k \in DOMAIN data[i] |->
            IF k \in {"text", "premise", "hypothesis"}
            THEN data[i][k] \o "~" \o p_type \o level
            ELSE data[i][k]]]

(***************************************************************************)
(* src/scripts/run_experiment.py: the cells of a configuration.            *)
(***************************************************************************)
\* model names as their '/'-separated parts
model_name(parts) == join_parts(parts, "/")

\* model_name.replace('/', '_')
safe_model_name(parts) == join_parts(parts, "_")

\* p.get('levels', [0.1])
levels_of(p) == IF "levels" \in DOMAIN p THEN p.levels ELSE <<"0.1">>

\* lines 83-94: the (type, level) pairs, 'clean' skipped
RECURSIVE expanded_perts(_)
expanded_perts(perturbations) ==
    IF perturbations = <<>> THEN <<>>
    ELSE LET p == Head(perturbations)
         IN  (IF p.type = "clean" THEN <<>>
              ELSE [i \in DOMAIN levels_of(p) |->
                        [p_type |-> p.type, level |-> levels_of(p)[i]]])
             \o expanded_perts(Tail(perturbations))

\* a cell is (task, model, perturbation type, level); returns is the form of
\* the predictions of the runner built for the model at line 77
cells_of_model(task_cfg, model, perts) ==
    [i \in DOMAIN perts |->
        [task |-> task_cfg.name, task_type |-> task_cfg.type,
         model |-> model.name, returns |-> model.returns,
         p_type |-> perts[i].p_type, level |-> perts[i].level]]

RECURSIVE cells_of_task(_, _, _)
cells_of_task(task_cfg, models, perts) ==
    IF models = <<>> THEN <<>>
    ELSE cells_of_model(task_cfg, Head(models), perts)
         \o cells_of_task(task_cfg, Tail(models), perts)

\* lines 45-97: the cells in the order run_experiment reaches them
RECURSIVE cells_of(_, _, _)
cells_of(tasks, models, perts) ==
    IF tasks = <<>> THEN <<>>
    ELSE cells_of_task(Head(tasks), models, perts)
         \o cells_of(Tail(tasks), models, perts)

experiment_cells(cfg) ==
    cells_of(cfg.tasks, cfg.models, expanded_perts(cfg.perturbations))

\* the configurations the model draws from
\* a task type the loader knows no text fields for leaves the examples
\* without any
TaskCfgs == {<<[name |-> "snp", type |-> "classification"]>>,
             <<[name |-> "wnli", type |-> "nli"],
               [name |-> "snp", type |-> "classification"]>>,
             <<[name |-> "csqa", type |-> "qa"]>>}

\* a model is its name and what its pipeline yields per input: a dict with
\* label and score, which _postprocess passes through, or a one-element
\* list, of which _postprocess returns the bare label
ModelCfgs == {<<[name |-> <<"org", "bert">>, returns |-> "dict"]>>,
              <<[name |-> <<"org", "bert">>, returns |-> "label"],
                [name |-> <<"org_bert">>, returns |-> "dict"]>>}

PerturbationCfgs ==
    {<<[type |-> "clean"]>>,
     <<[type |-> "clean"], [type |-> "noise", levels |-> <<"0.1", "0.2">>],
       [type |-> "codemix"]>>}

Configs == {[tasks |-> t, models |-> m, perturbations |-> p] :
                t \in TaskCfgs, m \in ModelCfgs, p \in PerturbationCfgs}

\* config.get('output_dir', os.path.join('results', experiment_name))
BaseOutputDir == "results/experiment"

(***************************************************************************)
(* src/evaluation/evaluator.py, reporting.py: file names.                  *)
(***************************************************************************)
\* Evaluator(runner): output_dir defaults to "results"
EvaluatorOutputDir == "results"

\* _save_predictions: os.path.join(output_dir, f"{task}_{perturbation}_{lang}_preds.csv")
preds_path(task, perturbation, lang) ==
    EvaluatorOutputDir \o "/" \o task \o "_" \o perturbation \o "_" \o lang
        \o "_preds.csv"

\* _save_metrics: os.path.join(output_dir, f"{task}_{perturbation}_metrics.json")
metrics_path(task, perturbation) ==
    EvaluatorOutputDir \o "/" \o task \o "_" \o perturbation \o "_metrics.json"

\* save_robustness_metrics under run_experiment's model_output_dir
report_path(cell) ==
    BaseOutputDir \o "/" \o safe_model_name(cell.model) \o "/"
        \o cell.task \o "_" \o cell.p_type \o "_" \o cell.level \o ".json"

(***************************************************************************)
(* src/evaluation/evaluator.py: Evaluator.evaluate_task                    *)
(***************************************************************************)
\* ex.get('language', 'unknown')
language_of(ex) == IF "language" \in DOMAIN ex THEN ex.language ELSE "unknown"

\* lines 32-35: the keys of lang_groups in insertion order
RECURSIVE lang_order(_)
lang_order(dataset) ==
    IF dataset = <<>> THEN <<>>
    ELSE LET rest == lang_order(SubSeq(dataset, 1, Len(dataset) - 1))
             lang == language_of(dataset[Len(dataset)])
         IN  IF lang \in Range(rest) THEN rest ELSE Append(rest, lang)

\* the examples of a language prepended instead of appended
RECURSIVE lang_group_prepended(_, _)
lang_group_prepended(dataset, lang) ==
    IF dataset = <<>> THEN <<>>
    ELSE IF language_of(Head(dataset)) = lang
         THEN Append(lang_group_prepended(Tail(dataset), lang), Head(dataset))
         ELSE lang_group_prepended(Tail(dataset), lang)

\* lang_groups[lang]
lang_group(dataset, lang) ==
    SelectSeq(dataset, LAMBDA ex : language_of(ex) = lang)

\* an example without a text field handed on as the text 'None'
build_input_none(ex) ==
    IF "premise" \in DOMAIN ex /\ "hypothesis" \in DOMAIN ex
    THEN [is_dict |-> TRUE, premise |-> ex.premise, hypothesis |-> ex.hypothesis]
    ELSE [is_dict |-> FALSE,
          text |-> IF "text" \in DOMAIN ex THEN ex.text ELSE "None"]

\* lines 52-55: the input handed to the runner
build_input(ex) ==
    IF "premise" \in DOMAIN ex /\ "hypothesis" \in DOMAIN ex
    THEN [is_dict |-> TRUE, premise |-> ex.premise, hypothesis |-> ex.hypothesis]
    ELSE [is_dict |-> FALSE,
          text |-> IF "text" \in DOMAIN ex THEN ex.text ELSE ""]

\* the confidence a runner reports with a label
RunnerScore == Rat(19, 20)

\* what batch_predict returns for k inputs: k predictions, each a dict with
\* label and score or a bare label
RunnerOutputs(k, returns) ==
    IF returns = "dict"
    THEN {[i \in 1..k |-> [is_dict |-> TRUE,
                           fields |-> [label |-> ls[i], score |-> RunnerScore]]] :
            ls \in [1..k -> Labels]}
    ELSE {[i \in 1..k |-> [is_dict |-> FALSE, value |-> ls[i]]] :
            ls \in [1..k -> Labels]}

\* lines 69-75: a raw prediction as label and score
normalize_prediction(p) ==
    IF p.is_dict
    THEN [label |-> IF "label" \in DOMAIN p.fields THEN p.fields.label
                    ELSE "str(dict)",
          score |-> IF "score" \in DOMAIN p.fields THEN p.fields.score ELSE Zero]
    ELSE [label |-> p.value, score |-> One]

\* lines 85-90: json.dumps of a pair, str of a text
text_for_csv(inp) ==
    IF inp.is_dict
    THEN "{\"premise\": \"" \o inp.premise \o "\", \"hypothesis\": \""
            \o inp.hypothesis \o "\"}"
    ELSE inp.text

\* _save_predictions' DataFrame
predictions_frame(examples, preds) ==
    [i \in DOMAIN examples |->
        [id |-> IF "id" \in DOMAIN examples[i] THEN examples[i].id ELSE "",
         text |-> text_for_csv(build_input(examples[i])),
         label |-> examples[i].label,
         prediction |-> preds[i].label,
         score |-> preds[i].score]]

(***************************************************************************)
(* src/perturbations: the generators.  A text is the sequence of its       *)
(* characters.  The alphabet and the tables are cut down to stand-ins:     *)
(*   "a"  a Latin vowel            "i"  a Devanagari vowel sign            *)
(*   "k"  a consonant              " "  whitespace     "."  punctuation    *)
(* and the words "k" for the key of MIXING_DICT['hi'] and ['mr'] mapped to *)
(* "house", "ki" for the key of MIXING_DICT['hi'] mapped to "fast/early",  *)
(* "ik" for a key of both MIXING_DICT['hi'] and SYNONYMS['hi'], "ak" for a *)
(* key of SYNONYMS['en'].                                                  *)
(***************************************************************************)
Chars == {"a", "i", "k", " ", "."}

Whitespace == {" "}

\* the texts handed to a generator
Texts == SeqsUpTo(Chars, MaxText)

\* the languages handed to a generator
PertLanguages == {"hi", "HI", "en", "ta", "hindi"}

\* str.lower()
lower(lang) == IF lang = "HI" THEN "hi" ELSE lang

\* noise_level, mixing_ratio, substitution_rate
Levels == {Zero, Rat(1, 2), One}

\* the global random source of the random module: its state, advanced by
\* every draw
RngModulus == 4

RngStates == 0..(RngModulus - 1)

rng_next(state) == (5 * state + 3) % RngModulus

\* random.seed(seed)
random_seed(seed) == seed % RngModulus

\* random.random(): a float in [0, 1) and the new state
random_random(state) ==
    [value |-> Rat(rng_next(state), RngModulus), rng |-> rng_next(state)]

\* random.choice(seq)
random_choice(seq, state) ==
    [value |-> seq[(rng_next(state) % Len(seq)) + 1], rng |-> rng_next(state)]

\* CharNoiseInjector.VOWELS
VOWELS == [en |-> {"a"}, hi |-> {"i"}, mr |-> {"i"}, bn |-> {}]

\* the loop of random_deletion: c kept when random.random() > noise_level
RECURSIVE deletion_loop(_, _, _)
deletion_loop(text, noise_level, state) ==
    IF text = <<>> THEN [text |-> <<>>, rng |-> state]
    ELSE LET d == random_random(state)
             rest == deletion_loop(Tail(text), noise_level, d.rng)
         IN  [text |-> (IF RatGt(d.value, noise_level) THEN <<Head(text)>>
                        ELSE <<>>) \o rest.text,
              rng |-> rest.rng]

\* the test of noise_level left out
random_deletion_no_shortcut(text, noise_level, state) ==
    IF text = <<>> THEN [text |-> <<>>, rng |-> state]
    ELSE deletion_loop(text, noise_level, state)

random_deletion(text, noise_level, state) ==
    IF text = <<>> THEN [text |-> <<>>, rng |-> state]
    ELSE IF ~RatGt(noise_level, Zero) THEN [text |-> text, rng |-> state]
    ELSE deletion_loop(text, noise_level, state)

\* chars[i] = chars[i+1] alone
swap_at_copy(chars, i) ==
    [j \in DOMAIN chars |-> IF j = i THEN chars[i + 1] ELSE chars[j]]

\* chars[i], chars[i+1] = chars[i+1], chars[i]
swap_at(chars, i) ==
    [j \in DOMAIN chars |-> IF j = i THEN chars[i + 1]
                            ELSE IF j = i + 1 THEN chars[i] ELSE chars[j]]

\* the loop of random_swap from position i (1-based) on
RECURSIVE swap_loop(_, _, _, _)
swap_loop(chars, i, noise_level, state) ==
    IF i > Len(chars) - 1 THEN [text |-> chars, rng |-> state]
    ELSE LET d == random_random(state)
         IN  swap_loop(IF RatGt(noise_level, d.value) THEN swap_at(chars, i)
                       ELSE chars,
                       i + 1, noise_level, d.rng)

random_swap(text, noise_level, state) ==
    IF text = <<>> THEN [text |-> <<>>, rng |-> state]
    ELSE IF ~RatGt(noise_level, Zero) THEN [text |-> text, rng |-> state]
    ELSE swap_loop(text, 1, noise_level, state)

\* no key of VOWELS
NoVowelSet == "no vowel set"

\* an unknown language treated as English
vowel_lang_default_en(lang) ==
    LET l == lower(lang)
    IN  IF l \in DOMAIN VOWELS THEN l
        ELSE IF l \in {"hindi", "hind"} THEN "hi"
        ELSE "en"

\* lines 80-90: the key of VOWELS for lang, if any
vowel_lang(lang) ==
    LET l == lower(lang)
    IN  IF l \in DOMAIN VOWELS THEN l
        ELSE IF l \in {"hindi", "hind"} THEN "hi"
        ELSE IF l \in {"marathi"} THEN "mr"
        ELSE IF l \in {"bengali", "bangla"} THEN "bn"
        ELSE IF l \in {"english"} THEN "en"
        ELSE NoVowelSet

\* a vowel dropped when its draw is above noise_level
RECURSIVE vowel_loop_above(_, _, _, _)
vowel_loop_above(text, noise_level, vowels, state) ==
    IF text = <<>> THEN [text |-> <<>>, rng |-> state]
    ELSE IF Head(text) \in vowels
    THEN LET d == random_random(state)
             rest == vowel_loop_above(Tail(text), noise_level, vowels, d.rng)
         IN  [text |-> (IF RatGt(d.value, noise_level) THEN <<>>
                        ELSE <<Head(text)>>) \o rest.text,
              rng |-> rest.rng]
    ELSE LET rest == vowel_loop_above(Tail(text), noise_level, vowels, state)
         IN  [text |-> <<Head(text)>> \o rest.text, rng |-> rest.rng]

\* the loop of vowel_drop: a draw is made for a vowel only
RECURSIVE vowel_loop(_, _, _, _)
vowel_loop(text, noise_level, vowels, state) ==
    IF text = <<>> THEN [text |-> <<>>, rng |-> state]
    ELSE IF Head(text) \in vowels
    THEN LET d == random_random(state)
             rest == vowel_loop(Tail(text), noise_level, vowels, d.rng)
         IN  [text |-> (IF RatGt(noise_level, d.value) THEN <<>>
                        ELSE <<Head(text)>>) \o rest.text,
              rng |-> rest.rng]
    ELSE LET rest == vowel_loop(Tail(text), noise_level, vowels, state)
         IN  [text |-> <<Head(text)>> \o rest.text, rng |-> rest.rng]

vowel_drop(text, noise_level, lang, state) ==
    IF text = <<>> THEN [text |-> <<>>, rng |-> state]
    ELSE IF ~RatGt(noise_level, Zero) THEN [text |-> text, rng |-> state]
    ELSE IF vowel_lang(lang) = NoVowelSet THEN [text |-> text, rng |-> state]
    ELSE vowel_loop(text, noise_level, VOWELS[vowel_lang(lang)], state)

\* one noise type applied
noise_step(n_type, text, noise_level, lang, state) ==
    IF n_type = "delete" THEN random_deletion(text, noise_level, state)
    ELSE IF n_type = "swap" THEN random_swap(text, noise_level, state)
    ELSE IF n_type = "vowel_drop" THEN vowel_drop(text, noise_level, lang, state)
    ELSE [text |-> text, rng |-> state]

\* the noise types of the list applied as deletion, then swap, then
\* vowel-drop, whatever their order in the list
inject_noise_fixed_order(text, noise_types, noise_level, lang, state) ==
    LET has(t) == \E i \in DOMAIN noise_types : noise_types[i] = t
        d == IF has("delete") THEN noise_step("delete", text, noise_level, lang, state)
             ELSE [text |-> text, rng |-> state]
        w == IF has("swap") THEN noise_step("swap", d.text, noise_level, lang, d.rng)
             ELSE d
    IN  IF has("vowel_drop")
        THEN noise_step("vowel_drop", w.text, noise_level, lang, w.rng)
        ELSE w

\* inject_noise: the noise types in the order of the list
RECURSIVE inject_noise(_, _, _, _, _)
inject_noise(text, noise_types, noise_level, lang, state) ==
    IF noise_types = <<>> THEN [text |-> text, rng |-> state]
    ELSE LET n_type == Head(noise_types)
             r == IF n_type = "delete" THEN random_deletion(text, noise_level, state)
                  ELSE IF n_type = "swap" THEN random_swap(text, noise_level, state)
                  ELSE IF n_type = "vowel_drop"
                  THEN vowel_drop(text, noise_level, lang, state)
                  ELSE [text |-> text, rng |-> state]
         IN  inject_noise(r.text, Tail(noise_types), noise_level, lang, r.rng)

\* the length of the first whitespace-free run of text
RECURSIVE first_word_len(_)
first_word_len(text) ==
    IF text = <<>> \/ Head(text) \in Whitespace THEN 0
    ELSE 1 + first_word_len(Tail(text))

\* str.split(): the whitespace-delimited tokens
RECURSIVE split(_)
split(text) ==
    IF text = <<>> THEN <<>>
    ELSE IF Head(text) \in Whitespace THEN split(Tail(text))
    ELSE LET n == first_word_len(text)
         IN  <<SubSeq(text, 1, n)>> \o split(SubSeq(text, n + 1, Len(text)))

\* " ".join(words)
RECURSIVE join_space(_)
join_space(words) ==
    IF words = <<>> THEN <<>>
    ELSE IF Len(words) = 1 THEN words[1]
    ELSE words[1] \o <<" ">> \o join_space(Tail(words))

RECURSIVE lstrip(_, _)
lstrip(word, chars) ==
    IF word # <<>> /\ Head(word) \in chars THEN lstrip(Tail(word), chars)
    ELSE word

RECURSIVE rstrip(_, _)
rstrip(word, chars) ==
    IF word # <<>> /\ word[Len(word)] \in chars
    THEN rstrip(SubSeq(word, 1, Len(word) - 1), chars)
    ELSE word

\* str.strip(chars)
strip(word, chars) == rstrip(lstrip(word, chars), chars)

\* the value as it stands in the dictionary
whole_value(value) == value

\* value.split('/')[0]
RECURSIVE first_alternative(_)
first_alternative(value) ==
    IF value = <<>> \/ Head(value) = "/" THEN <<>>
    ELSE <<Head(value)>> \o first_alternative(Tail(value))

\* CodeMixer.MIXING_DICT
MIXING_DICT ==
    [hi |-> (<<"k">> :> <<"h">>) @@ (<<"k", "i">> :> <<"f", "/", "e">>)
            @@ (<<"i", "k">> :> <<"g">>),
     mr |-> (<<"k">> :> <<"h">>)]

\* the punctuation stripped for the lookup (line 70): ".,!?\"'" and danda
MixPunctuation == {".", ",", "!", "?", "\"", "'", "|"}

\* _wrap_result
wrap_mixed(original, mixed, lang) ==
    [original_text |-> original, codemixed_text |-> mixed, language |-> lang,
     perturbation_type |-> "code-mixing"]

\* lines 68-78: the loop over the words
RECURSIVE mix_words(_, _, _, _)
mix_words(words, vocab, mixing_ratio, state) ==
    IF words = <<>> THEN [words |-> <<>>, rng |-> state]
    ELSE LET word == Head(words)
             clean_word == strip(word, MixPunctuation)
         IN  IF clean_word \in DOMAIN vocab
             THEN LET d == random_random(state)
                      rest == mix_words(Tail(words), vocab, mixing_ratio, d.rng)
                  IN  [words |-> <<IF RatGt(mixing_ratio, d.value)
                                   THEN first_alternative(vocab[clean_word])
                                   ELSE word>> \o rest.words,
                       rng |-> rest.rng]
             ELSE LET rest == mix_words(Tail(words), vocab, mixing_ratio, state)
                  IN  [words |-> <<word>> \o rest.words, rng |-> rest.rng]

\* CodeMixer.generate
codemix_generate(text, lang, mixing_ratio, state) ==
    IF text = <<>> THEN [result |-> wrap_mixed(text, text, lang), rng |-> state]
    ELSE IF lower(lang) \notin DOMAIN MIXING_DICT
    THEN [result |-> wrap_mixed(text, text, lower(lang)), rng |-> state]
    ELSE LET m == mix_words(split(text), MIXING_DICT[lower(lang)], mixing_ratio, state)
         IN  [result |-> wrap_mixed(text, join_space(m.words), lower(lang)),
              rng |-> m.rng]

\* Paraphraser.SYNONYMS
SYNONYMS ==
    [en |-> (<<"a", "k">> :> << <<"n">>, <<"e">> >>),
     hi |-> (<<"i", "k">> :> << <<"b">>, <<"u">> >>),
     mr |-> (<<"k", "k">> :> << <<"c">>, <<"u">> >>),
     bn |-> (<<"k", "a">> :> << <<"u">>, <<"c">> >>)]

\* the punctuation stripped for the lookup (line 94)
SynPunctuation == {".", ",", "!", "?", "\"", "'"}

\* str.startswith(prefix) for the languages of the model
startswith(lang, prefix) ==
    \/ lang = prefix
    \/ lang = "hindi" /\ prefix = "hi"

\* lines 68-75: the key of SYNONYMS for lang, or lang itself
synonym_lang(lang) ==
    LET l == lower(lang)
    IN  IF l \in DOMAIN SYNONYMS THEN l
        ELSE IF startswith(l, "hi") THEN "hi"
        ELSE IF startswith(l, "en") THEN "en"
        ELSE IF startswith(l, "mr") THEN "mr"
        ELSE IF startswith(l, "bn") THEN "bn"
        ELSE l

\* _wrap_result
wrap_paraphrased(original, paraphrased, lang, perturbation_type) ==
    [original_text |-> original, paraphrased_text |-> paraphrased,
     language |-> lang, perturbation_type |-> perturbation_type]

\* lines 91-103: the loop over the words
RECURSIVE substitute_words(_, _, _, _)
substitute_words(words, lang_syns, rate, state) ==
    IF words = <<>> THEN [words |-> <<>>, rng |-> state]
    ELSE LET word == Head(words)
             clean_word == strip(word, SynPunctuation)
         IN  IF clean_word \in DOMAIN lang_syns
             THEN LET d == random_random(state)
                      c == random_choice(lang_syns[clean_word], d.rng)
                      hit == RatGt(rate, d.value)
                      rest == substitute_words(Tail(words), lang_syns, rate,
                                               IF hit THEN c.rng ELSE d.rng)
                  IN  [words |-> <<IF hit THEN c.value ELSE word>> \o rest.words,
                       rng |-> rest.rng]
             ELSE LET rest == substitute_words(Tail(words), lang_syns, rate, state)
                  IN  [words |-> <<word>> \o rest.words, rng |-> rest.rng]

\* Paraphraser._synonym_substitution
synonym_substitution(text, lang, rate, state) ==
    IF lang \notin DOMAIN SYNONYMS THEN [text |-> text, rng |-> state]
    ELSE LET m == substitute_words(split(text), SYNONYMS[lang], rate, state)
         IN  [text |-> join_space(m.words), rng |-> m.rng]

\* synonyms substituted whatever the strategy
paraphrase_generate_any_strategy(text, lang, strategy, substitution_rate, state) ==
    IF text = <<>>
    THEN [result |-> wrap_paraphrased(text, text, lang, strategy), rng |-> state]
    ELSE LET l == synonym_lang(lang)
             r == synonym_substitution(text, l, substitution_rate, state)
         IN  [result |-> wrap_paraphrased(text, r.text, l, strategy), rng |-> r.rng]

\* Paraphraser.generate
paraphrase_generate(text, lang, strategy, substitution_rate, state) ==
    IF text = <<>>
    THEN [result |-> wrap_paraphrased(text, text, lang, strategy), rng |-> state]
    ELSE LET l == synonym_lang(lang)
             r == IF strategy = "synonym"
                  THEN synonym_substitution(text, l, substitution_rate, state)
                  ELSE [text |-> text, rng |-> state]
         IN  [result |-> wrap_paraphrased(text, r.text, l, strategy), rng |-> r.rng]

(***************************************************************************)
(* State.                                                                  *)
(***************************************************************************)
VARIABLES
    \* run_experiment: the configuration, the rows of the loaded split, the
    \* index of the cell being run and the place in its code
    config, raw, cur, pc,
    \* evaluate_task: the language groups still to process, overall_results,
    \* the paths this call has written, and what the call returned
    groupsLeft, overall_results, written, ret,
    \* evaluate_*_robustness: the names bound by the clean run's unpacking and
    \* how the call ended
    clean_binding, outcome,
    \* the files on disk
    files,
    \* analysis: the results directory, the call made and what came of it
    csv, a_call, a_out,
    \* metrics: the two label lists and the outcome of the call
    references, predictions, m_out,
    \* what calculate_consistency and calculate_robustness_summary were
    \* called with and returned
    c_out, s_out,
    \* perturbation: the text, language and intensity handed to the
    \* generators, the state of the global random source, the generator
    \* instances of the process, the number of generator calls the caller
    \* makes, and the calls made so far
    p_text, p_lang, p_level, rng, instances, call_budget, p_log

anaVars == <<csv, a_call, a_out>>
metVars == <<references, predictions, m_out, c_out, s_out>>
evalVars == <<config, raw, cur, pc, groupsLeft, overall_results, written, ret,
              clean_binding, outcome, files>>
pertVars == <<p_text, p_lang, p_level, rng, instances, call_budget, p_log>>
vars == <<evalVars, anaVars, metVars, pertVars>>

NoValue == [shape |-> "none"]
Running == [kind |-> "running"]

EvalIdle ==
    /\ config = [tasks |-> <<>>, models |-> <<>>, perturbations |-> <<>>]
    /\ raw = <<>>
    /\ cur = 0
    /\ pc = "idle"
    /\ groupsLeft = <<>>
    /\ overall_results = EmptyDict
    /\ written = {}
    /\ ret = NoValue
    /\ clean_binding = <<>>
    /\ outcome = Running
    /\ files = EmptyDict

\* seeds handed to a constructor; the default is 42
Seeds == {42, 7}

\* the generator has no seed
NoSeed == -1

\* no instance of the class constructed in this process
NoInstance == [constructed |-> FALSE]

\* an instance as its constructor leaves it: its seed, the number of its
\* calls, and whether the random source was touched by nothing but its own
\* calls since
Instance(seed) == [constructed |-> TRUE, seed |-> seed, calls |-> 0, fresh |-> TRUE]

\* a process before any construction; CharNoiseInjector is never constructed,
\* its methods are static and class methods
ProcessStart ==
    [mixer |-> NoInstance, paraphraser |-> NoInstance, noise |-> Instance(NoSeed)]

PertIdle ==
    /\ p_text = <<>>
    /\ p_lang = "en"
    /\ p_level = Zero
    /\ rng = 0
    /\ instances = ProcessStart
    /\ call_budget = 0
    /\ p_log = <<>>

NoCall == [fn |-> "none"]

AnaIdle ==
    /\ csv = [n \in PredNames |-> [state |-> "missing"]]
    /\ a_call = NoCall
    /\ a_out = [raised |-> FALSE]

MetIdle ==
    /\ references = <<>>
    /\ predictions = <<>>
    /\ m_out = [called |-> FALSE]
    /\ c_out = [called |-> FALSE]
    /\ s_out = [called |-> FALSE]

(***************************************************************************)
(* SpecAnalysis: one call of the analysis on a results directory holding   *)
(* the clean and the perturbed table of one (task, language).              *)
(***************************************************************************)
InitAnalysis ==
    /\ csv \in [PredNames -> CsvFiles]
    /\ a_call = NoCall
    /\ a_out = [raised |-> FALSE]
    /\ MetIdle
    /\ EvalIdle
    /\ PertIdle

AnalyzePair ==
    /\ a_call = NoCall
    /\ \E cp \in PredNames, pp \in PredNames, out \in OutputPaths :
        /\ a_call' = [fn |-> "analyze_pair", clean |-> cp, pert |-> pp,
                      output_path |-> out]
        /\ a_out' = analyze_pair(csv[cp], csv[pp], out)
    /\ UNCHANGED <<csv, metVars, evalVars, pertVars>>

RunDeepErrorAnalysis ==
    /\ a_call = NoCall
    /\ a_call' = [fn |-> "run_deep_error_analysis"]
    /\ a_out' = run_deep_error_analysis(csv, DefaultThreshold)
    /\ UNCHANGED <<csv, metVars, evalVars, pertVars>>

NextAnalysis == AnalyzePair \/ RunDeepErrorAnalysis

SpecAnalysis == InitAnalysis /\ [][NextAnalysis]_vars

(***************************************************************************)
(* SpecDeep: the error analyses on a results directory as Evaluator wrote  *)
(* it for one task, one language and n examples: a clean and a perturbed   *)
(* table with the ids 1..n and the labels of the examples.                 *)
(***************************************************************************)
\* the confidences of the perturbed table
DeepScores == {Rat(1, 2), Rat(9, 10), Rat(19, 20)}

\* --threshold
Thresholds == {DefaultThreshold, Rat(1, 2)}

\* what the runs predicted for one example and how sure the perturbed run
\* was
RowChoices == [clean : Labels, pert : Labels, score : DeepScores]

\* the two tables for the examples 1..n, example i predicted as choice[i]
clean_table(n, choice) ==
    [i \in 1..n |-> [id |-> IntToStr(i), label |-> truth(i),
                     prediction |-> choice[i].clean, score |-> TableScore]]

pert_table(n, choice) ==
    [i \in 1..n |-> [id |-> IntToStr(i), label |-> truth(i),
                     prediction |-> choice[i].pert, score |-> choice[i].score]]

\* the label that is not l
other_label(l) == IF l = "A" THEN "B" ELSE "A"

\* every example predicted alike: the clean and the perturbed prediction
\* right or wrong, and one confidence
UniformChoices(n) ==
    {[i \in 1..n |-> [clean |-> IF c THEN truth(i) ELSE other_label(truth(i)),
                      pert |-> IF q THEN truth(i) ELSE other_label(truth(i)),
                      score |-> sc]] :
        c \in BOOLEAN, q \in BOOLEAN, sc \in DeepScores}

\* up to MaxRows examples predicted in every way, up to MaxDeepRows examples
\* predicted alike
DeepChoices ==
    UNION {[1..n -> RowChoices] : n \in 0..MaxRows}
    \cup UNION {UniformChoices(n) : n \in 1..MaxDeepRows}

DeepDir(choice) ==
    (CleanName :> [state |-> "ok", rows |-> clean_table(Len(choice), choice)])
    @@ (PertName :> [state |-> "ok", rows |-> pert_table(Len(choice), choice)])

InitDeep ==
    /\ csv \in {DeepDir(choice) : choice \in DeepChoices}
    /\ a_call = NoCall
    /\ a_out = [raised |-> FALSE]
    /\ MetIdle
    /\ EvalIdle
    /\ PertIdle

\* run_deep_error_analysis(results_dir, output, threshold)
RunDeepErrorAnalysisWithThreshold ==
    /\ a_call = NoCall
    /\ \E threshold \in Thresholds :
        /\ a_call' = [fn |-> "run_deep_error_analysis", threshold |-> threshold]
        /\ a_out' = run_deep_error_analysis(csv, threshold)
    /\ UNCHANGED <<csv, metVars, evalVars, pertVars>>

\* analyze_errors(results_dir, output_file)
AnalyzeErrors ==
    /\ a_call = NoCall
    /\ a_call' = [fn |-> "analyze_errors", sample_size |-> DefaultSampleSize]
    /\ LET cell == analyze_errors_cell(csv)
       IN  IF cell.raised THEN a_out' = [raised |-> TRUE]
           ELSE IF ~cell.reported THEN a_out' = [raised |-> FALSE, report |-> EmptyDict]
           ELSE \E P \in SamplePositions(cell.flips, DefaultSampleSize) :
                 a_out' = [raised |-> FALSE,
                           report |-> [total_samples |-> cell.total_samples,
                                       flip_count |-> cell.flip_count,
                                       flip_rate |-> cell.flip_rate,
                                       samples |-> {sample_row(cell.flips[i]) : i \in P}]]
    /\ UNCHANGED <<csv, metVars, evalVars, pertVars>>

NextDeep ==
    \/ RunDeepErrorAnalysis
    \/ RunDeepErrorAnalysisWithThreshold
    \/ AnalyzeErrors

SpecDeep == InitDeep /\ [][NextDeep]_vars

(***************************************************************************)
(* SpecAgree: the three flip analyses on one results directory.  The clean *)
(* table holds the examples 1..n as a clean run predicted them; the        *)
(* perturbed table holds some of them, as a perturbed run predicted them.  *)
(***************************************************************************)
\* the most examples of a table
MaxAgreeRows == 3

\* the predictions of the two runs, the perturbed run always as sure
AgreeChoices ==
    UNION {[1..n -> [clean : Labels, pert : Labels, score : {TableScore}]] :
            n \in 0..MaxAgreeRows}

\* the rows of t at the positions of keep, in the order of t
RECURSIVE rows_at(_, _)
rows_at(t, keep) ==
    IF t = <<>> THEN <<>>
    ELSE rows_at(SubSeq(t, 1, Len(t) - 1), keep)
         \o (IF Len(t) \in keep THEN <<t[Len(t)]>> ELSE <<>>)

AgreeDir(choice, keep) ==
    (CleanName :> [state |-> "ok", rows |-> clean_table(Len(choice), choice)])
    @@ (PertName :> [state |-> "ok",
                     rows |-> rows_at(pert_table(Len(choice), choice), keep)])

InitAgree ==
    /\ csv \in {AgreeDir(choice, keep) :
                    choice \in AgreeChoices, keep \in SUBSET (1..MaxAgreeRows)}
    /\ a_call = NoCall
    /\ a_out = [raised |-> FALSE]
    /\ MetIdle
    /\ EvalIdle
    /\ PertIdle

NextAgree ==
    \/ AnalyzePair
    \/ AnalyzeErrors
    \/ RunDeepErrorAnalysis

SpecAgree == InitAgree /\ [][NextAgree]_vars

(***************************************************************************)
(* SpecNames: prediction tables saved under the names _save_predictions    *)
(* gives them, then the names taken apart by one of the analyses.          *)
(***************************************************************************)
\* task names, perturbation names and languages handed to evaluate_task;
\* a name may hold underscores
TaskNames == {<<"t">>, <<"t", "_", "p">>}

PerturbationNames == {CleanWord, <<"q">>, <<"p", "_", "q">>}

LanguageNames == {<<"h">>, <<"h", "_", "i">>}

InitNames ==
    /\ csv = EmptyDict
    /\ a_call = NoCall
    /\ a_out = [raised |-> FALSE]
    /\ MetIdle
    /\ EvalIdle
    /\ PertIdle

\* _save_predictions(task, perturbation, lang, ...): to_csv replaces a file
\* of the same name; saved_as keeps what the file was saved for
SavePredictions ==
    /\ a_call = NoCall
    /\ Cardinality(DOMAIN csv) < MaxFiles
    /\ \E task \in TaskNames, perturbation \in PerturbationNames,
          lang \in LanguageNames :
        LET name == preds_filename(task, perturbation, lang)
            key == [task |-> task, lang |-> lang, perturbation |-> perturbation]
            before == IF name \in DOMAIN csv THEN csv[name].saved_as ELSE {}
        IN  csv' = Put(csv, name, [state |-> "ok", rows |-> <<>>,
                                   saved_as |-> before \cup {key}])
    /\ UNCHANGED <<a_call, a_out, metVars, evalVars, pertVars>>

\* analyze_errors lines 18-38: file_map, told as the keys each file is
\* entered under
AnalyzeErrorsFileMap ==
    /\ a_call = NoCall
    /\ a_call' = [fn |-> "analyze_errors file_map"]
    /\ a_out' = [raised |-> FALSE,
                 file_map |-> [n \in glob_preds(DOMAIN csv) |->
                                  analyze_errors_parse(n)]]
    /\ UNCHANGED <<csv, metVars, evalVars, pertVars>>

\* run_deep_error_analysis lines 15-36: file_map, told as the keys each
\* file is entered under
DeepFileMap ==
    /\ a_call = NoCall
    /\ a_call' = [fn |-> "run_deep_error_analysis file_map"]
    /\ a_out' = [raised |-> FALSE,
                 file_map |-> [n \in glob_preds(DOMAIN csv) |-> deep_parse(n)]]
    /\ UNCHANGED <<csv, metVars, evalVars, pertVars>>

\* run_analysis_on_directory: the pairs handed to analyze_pair
RunAnalysisOnDirectory ==
    /\ a_call = NoCall
    /\ a_call' = [fn |-> "run_analysis_on_directory"]
    /\ a_out' = [raised |-> FALSE, pairs |-> directory_pairs(DOMAIN csv)]
    /\ UNCHANGED <<csv, metVars, evalVars, pertVars>>

NextNames ==
    \/ SavePredictions
    \/ AnalyzeErrorsFileMap
    \/ DeepFileMap
    \/ RunAnalysisOnDirectory

SpecNames == InitNames /\ [][NextNames]_vars

(***************************************************************************)
(* SpecMetrics: one call of a function of the metrics layer on two label   *)
(* lists.  For calculate_classification_metrics they are the references    *)
(* and the predictions, for calculate_consistency the clean and the        *)
(* perturbed predictions; calculate_robustness_summary is called as the    *)
(* robustness pipelines call it for one language.                          *)
(***************************************************************************)
LabelLists == SeqsUpTo(Range(LabelOrder), MaxLen)

InitMetrics ==
    /\ references \in LabelLists
    /\ predictions \in LabelLists
    /\ m_out = [called |-> FALSE]
    /\ c_out = [called |-> FALSE]
    /\ s_out = [called |-> FALSE]
    /\ AnaIdle
    /\ EvalIdle
    /\ PertIdle

CalculateClassificationMetrics ==
    /\ ~m_out.called
    /\ m_out' = [called |-> TRUE]
                @@ calculate_classification_metrics(references, predictions)
    /\ UNCHANGED <<references, predictions, c_out, s_out, anaVars, evalVars, pertVars>>

CalculateConsistency ==
    /\ ~c_out.called
    /\ c_out' = [called |-> TRUE,
                 value |-> calculate_consistency(references, predictions)]
    /\ UNCHANGED <<references, predictions, m_out, s_out, anaVars, evalVars, pertVars>>

NextMetrics ==
    \/ CalculateClassificationMetrics
    \/ CalculateConsistency

SpecMetrics == InitMetrics /\ [][NextMetrics]_vars

(***************************************************************************)
(* SpecSummary: one call of calculate_robustness_summary on two metrics    *)
(* records and a consistency score.                                        *)
(***************************************************************************)
\* the values accuracy, macro-F1 and consistency take on up to MaxLen
\* examples
MetricValues == UNION {{Rat(k, n) : k \in 0..n} : n \in 1..MaxLen}

\* a metrics record of a run for a language: the record of
\* calculate_classification_metrics, as far as the summary reads it, the
\* record without a key, or {} for a language the run does not have
\* (clean_metrics.get(lang, {}))
MetricsDicts ==
    {[accuracy |-> a, f1_macro |-> f] : a, f \in MetricValues}
    \cup {[accuracy |-> a] : a \in MetricValues}
    \cup {[f1_macro |-> f] : f \in MetricValues}
    \cup {EmptyDict}

InitSummary ==
    /\ MetIdle
    /\ AnaIdle
    /\ EvalIdle
    /\ PertIdle

CalculateRobustnessSummary ==
    /\ ~s_out.called
    /\ \E clean_metrics \in MetricsDicts, perturbed_metrics \in MetricsDicts,
          consistency_score \in {Zero, One, None} :
        s_out' = [called |-> TRUE, clean_metrics |-> clean_metrics,
                  perturbed_metrics |-> perturbed_metrics,
                  consistency_score |-> consistency_score]
                 @@ calculate_robustness_summary(clean_metrics, perturbed_metrics,
                                                 consistency_score)
    /\ UNCHANGED <<references, predictions, m_out, c_out, anaVars, evalVars, pertVars>>

NextSummary == CalculateRobustnessSummary

SpecSummary == InitSummary /\ [][NextSummary]_vars

(***************************************************************************)
(* SpecPerturb: one call of a generator on a text, a language and an       *)
(* intensity, at a point of the process where a CodeMixer and a            *)
(* Paraphraser exist and the global random source is in any state.         *)
(* SpecSeeded: a caller who constructs generators, calls them up to        *)
(* MaxCalls times on one input, and starts new processes.                  *)
(***************************************************************************)
\* lists of noise types handed to inject_noise
NoiseTypeLists ==
    {<<"delete">>, <<"swap">>, <<"vowel_drop">>,
     <<"delete", "swap", "vowel_drop">>, <<"vowel_drop", "delete">>,
     <<"vowel_drop", "swap">>}

\* strategy tags handed to Paraphraser.generate
Strategies == {"synonym", "backtranslate"}

\* a call of generator gen of the process: the others are no longer fresh
after_call(gen) ==
    [g \in DOMAIN instances |->
        IF g = gen THEN [instances[g] EXCEPT !.calls = @ + 1]
        ELSE IF instances[g].constructed THEN [instances[g] EXCEPT !.fresh = FALSE]
        ELSE instances[g]]

\* the record of a call
call_entry(gen, variant, out, rng_after) ==
    [gen |-> gen, variant |-> variant, seed |-> instances[gen].seed,
     own_calls |-> instances[gen].calls, fresh |-> instances[gen].fresh,
     rng_before |-> rng, rng_after |-> rng_after, out |-> out]

InitPerturb ==
    /\ p_text \in Texts
    /\ p_lang \in PertLanguages
    /\ p_level \in Levels
    /\ rng \in RngStates
    /\ instances = [mixer |-> [Instance(42) EXCEPT !.fresh = FALSE],
                    paraphraser |-> [Instance(42) EXCEPT !.fresh = FALSE],
                    noise |-> [Instance(NoSeed) EXCEPT !.fresh = FALSE]]
    /\ call_budget = 1
    /\ p_log = <<>>
    /\ AnaIdle
    /\ MetIdle
    /\ EvalIdle

\* CharNoiseInjector.inject_noise(p_text, noise_types, p_level, p_lang)
InjectNoise ==
    /\ Len(p_log) < call_budget
    /\ \E noise_types \in NoiseTypeLists :
        LET r == inject_noise(p_text, noise_types, p_level, p_lang, rng)
        IN  /\ rng' = r.rng
            /\ p_log' = Append(p_log, call_entry("noise", noise_types, r.text, r.rng))
    /\ instances' = after_call("noise")
    /\ UNCHANGED <<p_text, p_lang, p_level, call_budget, anaVars, metVars, evalVars>>

\* CodeMixer.generate(p_text, p_lang, p_level)
CodeMixGenerate ==
    /\ Len(p_log) < call_budget
    /\ instances.mixer.constructed
    /\ LET r == codemix_generate(p_text, p_lang, p_level, rng)
       IN  /\ rng' = r.rng
           /\ p_log' = Append(p_log, call_entry("mixer", <<"code-mixing">>,
                                                r.result.codemixed_text, r.rng))
    /\ instances' = after_call("mixer")
    /\ UNCHANGED <<p_text, p_lang, p_level, call_budget, anaVars, metVars, evalVars>>

\* Paraphraser.generate(p_text, p_lang, strategy, p_level)
ParaphraseGenerate ==
    /\ Len(p_log) < call_budget
    /\ instances.paraphraser.constructed
    /\ \E strategy \in Strategies :
        LET r == paraphrase_generate(p_text, p_lang, strategy, p_level, rng)
        IN  /\ rng' = r.rng
            /\ p_log' = Append(p_log, call_entry("paraphraser", <<strategy>>,
                                                 r.result.paraphrased_text, r.rng))
    /\ instances' = after_call("paraphraser")
    /\ UNCHANGED <<p_text, p_lang, p_level, call_budget, anaVars, metVars, evalVars>>

NextPerturb ==
    \/ InjectNoise
    \/ CodeMixGenerate
    \/ ParaphraseGenerate

SpecPerturb == InitPerturb /\ [][NextPerturb]_vars

\* the inputs of the seeded caller
SeededTexts == {<<"i", "k">>, <<"k", " ", "i", "k">>}

\* a process starts with the random source seeded from the system's entropy
InitSeeded ==
    /\ p_text \in SeededTexts
    /\ p_lang = "hi"
    /\ p_level = Rat(1, 2)
    /\ rng \in RngStates
    /\ instances = ProcessStart
    /\ call_budget = MaxCalls
    /\ p_log = <<>>
    /\ AnaIdle
    /\ MetIdle
    /\ EvalIdle

\* the construction of gen with seed: random.seed(seed) on the global source
construct(gen, seed) ==
    [g \in DOMAIN instances |->
        IF g = gen THEN Instance(seed)
        ELSE IF instances[g].constructed THEN [instances[g] EXCEPT !.fresh = FALSE]
        ELSE instances[g]]

\* CodeMixer(seed)
ConstructCodeMixer ==
    /\ Len(p_log) < call_budget
    /\ \E seed \in Seeds :
        /\ rng' = random_seed(seed)
        /\ instances' = construct("mixer", seed)
    /\ UNCHANGED <<p_text, p_lang, p_level, call_budget, p_log, anaVars, metVars,
                   evalVars>>

\* Paraphraser(seed)
ConstructParaphraser ==
    /\ Len(p_log) < call_budget
    /\ \E seed \in Seeds :
        /\ rng' = random_seed(seed)
        /\ instances' = construct("paraphraser", seed)
    /\ UNCHANGED <<p_text, p_lang, p_level, call_budget, p_log, anaVars, metVars,
                   evalVars>>

\* the process ends and a new one starts
NewProcess ==
    /\ Len(p_log) < call_budget
    /\ rng' \in RngStates
    /\ instances' = ProcessStart
    /\ UNCHANGED <<p_text, p_lang, p_level, call_budget, p_log, anaVars, metVars,
                   evalVars>>

NextSeeded ==
    \/ ConstructCodeMixer
    \/ ConstructParaphraser
    \/ NewProcess
    \/ InjectNoise
    \/ CodeMixGenerate
    \/ ParaphraseGenerate

SpecSeeded == InitSeeded /\ [][NextSeeded]_vars

(***************************************************************************)
(* Spec: one run_experiment.  The configuration lists the tasks and models *)
(* that load; raw is the split of a task after the language filter and the *)
(* sample limit.                                                           *)
(***************************************************************************)
Cells == experiment_cells(config)

Cell == Cells[cur]

CleanData == load_clean_data(raw, Cell.task, Cell.task_type)

PertData == apply_perturbation(CleanData, Cell.p_type, Cell.level)

\* the perturbation_name evaluate_*_robustness passes to evaluate_task
RunTag == IF pc \in {"eval_clean", "ret_clean"} THEN "clean" ELSE "perturbed"

RunData == IF RunTag = "clean" THEN CleanData ELSE PertData

Init ==
    /\ config \in Configs
    /\ raw \in SeqsUpTo(RawExamples, MaxExamples)
    /\ cur = 0
    /\ pc = "start"
    /\ groupsLeft = <<>>
    /\ overall_results = EmptyDict
    /\ written = {}
    /\ ret = NoValue
    /\ clean_binding = <<>>
    /\ outcome = Running
    /\ files = EmptyDict
    /\ AnaIdle
    /\ MetIdle
    /\ PertIdle

\* run_experiment lines 97-108: the next cell; its perturbed data is built
\* and the robustness pipeline starts the clean evaluate_task, whose lines
\* 32-38 group the data by language
StartCell ==
    /\ pc = "start"
    /\ cur < Len(Cells)
    /\ cur' = cur + 1
    /\ pc' = "eval_clean"
    /\ groupsLeft' = lang_order(load_clean_data(raw, Cells[cur + 1].task,
                                                Cells[cur + 1].task_type))
    /\ overall_results' = EmptyDict
    /\ written' = {}
    /\ ret' = NoValue
    /\ clean_binding' = <<>>
    /\ outcome' = Running
    /\ UNCHANGED <<config, raw, files, anaVars, metVars, pertVars>>

\* run_experiment line 115: no cell left
ExperimentCompleted ==
    /\ pc = "start"
    /\ cur = Len(Cells)
    /\ pc' = "done"
    /\ UNCHANGED <<config, raw, cur, groupsLeft, overall_results, written, ret,
                   clean_binding, outcome, files, anaVars, metVars, pertVars>>

\* the exception caught and the language group skipped
BatchPredictFailsSkipped ==
    /\ pc \in {"eval_clean", "eval_pert"}
    /\ groupsLeft # <<>>
    /\ outcome' = [kind |-> "raised", error |-> "batch_predict", during |-> RunTag]
    /\ groupsLeft' = Tail(groupsLeft)
    /\ UNCHANGED <<config, raw, cur, pc, overall_results, written, ret,
                   clean_binding, files, anaVars, metVars, pertVars>>

\* evaluate_task line 62: batch_predict raises; nothing catches it in
\* evaluate_task, evaluate_*_robustness or run_experiment's cell loop
BatchPredictFails ==
    /\ pc \in {"eval_clean", "eval_pert"}
    /\ groupsLeft # <<>>
    /\ outcome' = [kind |-> "raised", error |-> "batch_predict", during |-> RunTag]
    /\ pc' = "aborted"
    /\ UNCHANGED <<config, raw, cur, groupsLeft, overall_results, written, ret,
                   clean_binding, files, anaVars, metVars, pertVars>>

\* evaluate_task lines 41-92: one language group
ProcessGroup ==
    /\ pc \in {"eval_clean", "eval_pert"}
    /\ groupsLeft # <<>>
    /\ LET lang == Head(groupsLeft)
           examples == lang_group(RunData, lang)
           labels == [i \in DOMAIN examples |-> examples[i].label]
       IN  \E raw_preds \in RunnerOutputs(Len(examples), Cell.returns) :
            LET preds == [i \in DOMAIN raw_preds |->
                            normalize_prediction(raw_preds[i])]
                pred_labels == [i \in DOMAIN preds |-> preds[i].label]
                metrics == calculate_classification_metrics(labels, pred_labels)
                path == preds_path(Cell.task, RunTag, lang)
            IN  IF metrics.raised
                THEN /\ outcome' = [kind |-> "raised", error |-> metrics.error,
                                    during |-> RunTag]
                     /\ pc' = "aborted"
                     /\ UNCHANGED <<groupsLeft, overall_results, written, files>>
                ELSE /\ overall_results' = Put(overall_results, lang, metrics.value)
                     /\ files' = Put(files, path,
                                     [cell |-> cur, kind |-> "predictions",
                                      rows |-> predictions_frame(examples, preds)])
                     /\ written' = written \cup {path}
                     /\ groupsLeft' = Tail(groupsLeft)
                     /\ UNCHANGED <<pc, outcome>>
    /\ UNCHANGED <<config, raw, cur, ret, clean_binding, anaVars, metVars, pertVars>>

\* evaluate_task lines 94-109: the metrics document is saved and
\* overall_results returned
FinishEvaluateTask ==
    /\ pc \in {"eval_clean", "eval_pert"}
    /\ groupsLeft = <<>>
    /\ files' = Put(files, metrics_path(Cell.task, RunTag),
                    [cell |-> cur, kind |-> "metrics", metrics |-> overall_results])
    /\ written' = written \cup {metrics_path(Cell.task, RunTag)}
    /\ ret' = [shape |-> "dict", value |-> overall_results]
    /\ pc' = IF pc = "eval_clean" THEN "ret_clean" ELSE "ret_pert"
    /\ UNCHANGED <<config, raw, cur, groupsLeft, overall_results, clean_binding,
                   outcome, anaVars, metVars, pertVars>>

\* a, b = value: a pair binds its two parts; a dict is iterated over its
\* keys and binds them when there are exactly two
unpack_two(value, key_order) ==
    IF value.shape = "pair" THEN Return(<<value.metrics, value.predictions>>)
    ELSE IF Cardinality(DOMAIN value.value) = 2 THEN Return(key_order)
    ELSE Raise("ValueError: unpack")

\* evaluate_classification_robustness line 28 (evaluate_nli_robustness
\* alike): clean_metrics, clean_preds = the clean result; then line 32
\* starts the perturbed evaluate_task
UnpackClean ==
    /\ pc = "ret_clean"
    /\ LET u == unpack_two(ret, lang_order(CleanData))
       IN  IF u.raised
           THEN /\ outcome' = [kind |-> "raised", error |-> u.error,
                               during |-> "clean"]
                /\ pc' = "aborted"
                /\ UNCHANGED <<groupsLeft, overall_results, written, ret,
                               clean_binding>>
           ELSE /\ clean_binding' = u.value
                /\ pc' = "eval_pert"
                /\ groupsLeft' = lang_order(PertData)
                /\ overall_results' = EmptyDict
                /\ written' = {}
                /\ ret' = NoValue
                /\ UNCHANGED outcome
    /\ UNCHANGED <<config, raw, cur, files, anaVars, metVars, pertVars>>

\* evaluate_classification_robustness lines 32-36: pert_metrics, pert_preds
\* = the perturbed result; then clean_metrics.keys() on what line 28 bound,
\* the name of a language
UnpackPerturbed ==
    /\ pc = "ret_pert"
    /\ LET u == unpack_two(ret, lang_order(PertData))
       IN  outcome' = [kind |-> "raised",
                       error |-> IF u.raised THEN u.error
                                 ELSE "AttributeError: 'str' object has no attribute 'keys'",
                       during |-> "perturbed"]
    /\ pc' = "aborted"
    /\ UNCHANGED <<config, raw, cur, groupsLeft, overall_results, written, ret,
                   clean_binding, files, anaVars, metVars, pertVars>>

Next ==
    \/ StartCell
    \/ ExperimentCompleted
    \/ ProcessGroup
    \/ BatchPredictFails
    \/ FinishEvaluateTask
    \/ UnpackClean
    \/ UnpackPerturbed

Spec == Init /\ [][Next]_vars

(***************************************************************************)
(* Properties of the consistency analysis (SpecAnalysis).                  *)
(***************************************************************************)
AnalyzePairReturned == a_call.fn = "analyze_pair"

\* both files of the call were read
ReadOk == /\ csv[a_call.clean].state = "ok"
          /\ csv[a_call.pert].state = "ok"

CleanTable == csv[a_call.clean].rows
PertTable == csv[a_call.pert].rows

\* the pairs (clean row, perturbed row) with the same id
IdPairs == {ij \in (DOMAIN CleanTable) \X (DOMAIN PertTable) :
                CleanTable[ij[1]].id = PertTable[ij[2]].id}

AgreeingPairs == {ij \in IdPairs :
                    CleanTable[ij[1]].prediction = PertTable[ij[2]].prediction}

CommonIds == IdsOf(CleanTable) \cap IdsOf(PertTable)

\* C4: analyze_pair joins the two tables by id as an inner join: with ids
\* unique within each table, total_samples is the number of ids present in
\* both tables, every joined row pairs a clean and a perturbed row of the
\* same id, and a row whose id is on one side only counts in none of
\* total_samples, consistent_count, flipped_count.
C4_InnerJoinById ==
    (AnalyzePairReturned /\ ReadOk
        /\ HasUniqueIds(CleanTable) /\ HasUniqueIds(PertTable))
    => LET m == a_out.merged
           r == a_out.ret
       IN  /\ r.total_samples = Cardinality(CommonIds)
           /\ Len(m) = Cardinality(CommonIds)
           /\ \A k \in DOMAIN m :
                \E ij \in IdPairs :
                    /\ m[k].id = CleanTable[ij[1]].id
                    /\ m[k].prediction_clean = CleanTable[ij[1]].prediction
                    /\ m[k].prediction_pert = PertTable[ij[2]].prediction
           /\ CommonIds # {} =>
                /\ r.consistent_count = Cardinality(AgreeingPairs)
                /\ r.flipped_count = Cardinality(IdPairs \ AgreeingPairs)

\* a join of tables with unique ids where some id is on one side only
C4_Witness ==
    /\ AnalyzePairReturned /\ ReadOk
    /\ HasUniqueIds(CleanTable) /\ HasUniqueIds(PertTable)
    /\ CommonIds # {}
    /\ IdsOf(CleanTable) # IdsOf(PertTable)
    /\ a_out.ret.total_samples = Cardinality(CommonIds)

\* the scenario of the specification: ids 1,2,3 with clean predictions
\* A,B,A and perturbed predictions A,C,A
ScenarioClean ==
    [state |-> "ok",
     rows |-> <<TableRow(1, "A"), TableRow(2, "B"), TableRow(3, "A")>>]

ScenarioPert ==
    [state |-> "ok",
     rows |-> <<TableRow(1, "A"), TableRow(2, "C"), TableRow(3, "A")>>]

ScenarioOut == analyze_pair(ScenarioClean, ScenarioPert, ReportPath)

\* C5 as stated: the statistics and the details of a non-empty join are
\* the counts taken on the two tables, and the scenario gives flip_rate
\* equal to 1/3 and the flipped id set {2}.
C5_Original ==
    /\ (AnalyzePairReturned /\ ReadOk /\ IdPairs # {})
       => LET r == a_out.ret
              d == a_out.report.details
          IN  /\ r.total_samples = Cardinality(IdPairs)
              /\ r.consistent_count = Cardinality(AgreeingPairs)
              /\ r.flipped_count = r.total_samples - r.consistent_count
              /\ r.consistency_score = Rat(r.consistent_count, r.total_samples)
              /\ a_call.output_path # NoPath =>
                    /\ a_out.report.written
                    /\ Len(d) = Cardinality(IdPairs)
                    /\ {d[k].id : k \in {x \in DOMAIN d : ~d[x].is_consistent}}
                       = {CleanTable[ij[1]].id : ij \in IdPairs \ AgreeingPairs}
                    /\ \A k \in DOMAIN d :
                        d[k].is_consistent
                            = (d[k].clean_prediction = d[k].perturbed_prediction)
    /\ ScenarioOut.ret.flip_rate = Rat(1, 3)
    /\ {ScenarioOut.report.details[k].id :
            k \in {x \in DOMAIN ScenarioOut.report.details :
                     ~ScenarioOut.report.details[x].is_consistent}} = {"2"}

\* C5 amended: for a non-empty join, total_samples is the number of joined
\* rows, consistent_count the number of joined rows with equal predictions,
\* flipped_count = total_samples - consistent_count, consistency_score =
\* consistent_count / total_samples, and the detailed report marks
\* is_consistent false for exactly the ids whose two predictions differ; the
\* scenario gives the flipped id set {2} and the flip_rate 1.0 - 2/3, the
\* double one unit in the last place above 1/3.
C5_JoinStatistics ==
    /\ (AnalyzePairReturned /\ ReadOk /\ IdPairs # {})
       => LET r == a_out.ret
              d == a_out.report.details
          IN  /\ r.total_samples = Cardinality(IdPairs)
              /\ r.consistent_count = Cardinality(AgreeingPairs)
              /\ r.flipped_count = r.total_samples - r.consistent_count
              /\ r.consistency_score = Rat(r.consistent_count, r.total_samples)
              /\ a_call.output_path # NoPath =>
                    /\ a_out.report.written
                    /\ Len(d) = Cardinality(IdPairs)
                    /\ {d[k].id : k \in {x \in DOMAIN d : ~d[x].is_consistent}}
                       = {CleanTable[ij[1]].id : ij \in IdPairs \ AgreeingPairs}
                    /\ \A k \in DOMAIN d :
                        d[k].is_consistent
                            = (d[k].clean_prediction = d[k].perturbed_prediction)
    /\ nearest_fraction(ScenarioOut.ret.flip_rate) = Rat(1, 3)
    /\ ScenarioOut.ret.flip_rate = <<1, 3, 1>>
    /\ {ScenarioOut.report.details[k].id :
            k \in {x \in DOMAIN ScenarioOut.report.details :
                     ~ScenarioOut.report.details[x].is_consistent}} = {"2"}

\* a join with a flipped and a consistent row, and the report written
C5_Witness ==
    /\ AnalyzePairReturned /\ ReadOk
    /\ a_call.output_path # NoPath
    /\ AgreeingPairs # {}
    /\ IdPairs \ AgreeingPairs # {}
    /\ a_out.ret.flipped_count = 1
    /\ a_out.report.written

SelfJoin == AnalyzePairReturned /\ a_call.clean = a_call.pert

\* C7 as stated: a table joined with itself gives consistency_score 1.0
\* and flipped_count 0, for every prediction table.
C7_Original ==
    (SelfJoin /\ ReadOk)
    => /\ {"consistency_score", "flipped_count"} \subseteq DOMAIN a_out.ret
       /\ a_out.ret.consistency_score = One
       /\ a_out.ret.flipped_count = 0

\* C7 amended: a non-empty table in which rows of the same id carry the
\* same prediction (every table with unique ids), joined with itself, gives
\* consistency_score 1.0 and flipped_count 0.
C7_SelfJoin ==
    (SelfJoin /\ ReadOk /\ CleanTable # <<>>
        /\ \A i, j \in DOMAIN CleanTable :
              CleanTable[i].id = CleanTable[j].id
              => CleanTable[i].prediction = CleanTable[j].prediction)
    => /\ a_out.ret.consistency_score = One
       /\ a_out.ret.flipped_count = 0

\* a self-join of a table with two ids and two different predictions, one
\* of them wrong
C7_Witness ==
    /\ SelfJoin /\ ReadOk
    /\ Len(CleanTable) = 2
    /\ HasUniqueIds(CleanTable)
    /\ CleanTable[1].prediction # CleanTable[2].prediction
    /\ a_out.ret.consistency_score = One

DeepReturned == a_call.fn = "run_deep_error_analysis"

\* run_deep_error_analysis read, or tried to read, a file it could not read
DeepReadFailed ==
    \/ csv[CleanName].state = "unreadable"
    \/ csv[CleanName].state = "ok" /\ csv[PertName].state = "unreadable"

C10_MetricsRecord ==
    m_out.called
    => IF Len(references) # Len(predictions)
       THEN m_out.raised /\ m_out.error = "ValueError: Length mismatch"
       ELSE /\ ~m_out.raised
            /\ DOMAIN m_out.value = {"accuracy", "f1_macro", "confusion_matrix"}
            /\ references = <<>> =>
                /\ m_out.value.accuracy = Zero
                /\ m_out.value.f1_macro = Zero


\* C11: calculate_consistency returns 0.0 when the two lists differ in
\* length or are both empty, and otherwise the number of positions at which
\* they agree divided by the length; the result lies between 0 and 1.
C11_ConsistencyValue ==
    c_out.called =>
        /\ c_out.value =
            IF Len(references) # Len(predictions) \/ references = <<>> THEN Zero
            ELSE Rat(Cardinality({i \in 1..Len(references) :
                                    references[i] = predictions[i]}),
                     Len(references))
        /\ ~RatGt(Zero, c_out.value)
        /\ ~RatGt(c_out.value, One)

\* two lists of equal length that agree at some positions and not at others
C11_Witness ==
    /\ c_out.called
    /\ Len(references) = Len(predictions)
    /\ RatGt(c_out.value, Zero)
    /\ RatGt(One, c_out.value)

\* C12: calculate_consistency is symmetric in its two lists, and the
\* consistency of a non-empty list with itself is 1.0.
C12_SymmetricAndReflexive ==
    c_out.called =>
        /\ c_out.value = calculate_consistency(predictions, references)
        /\ (references = predictions /\ references # <<>>) => c_out.value = One
        /\ references # <<>> => calculate_consistency(references, references) = One

\* two different lists, of different lengths, the first entries equal
C12_Witness ==
    /\ c_out.called
    /\ Len(references) # Len(predictions)
    /\ references # <<>>
    /\ predictions # <<>>
    /\ references[1] = predictions[1]
    /\ c_out.value = Zero

(***************************************************************************)
(* Properties of the robustness summary (SpecSummary).                     *)
(***************************************************************************)
SummaryCleanAcc == dict_get(s_out.clean_metrics, "accuracy", Zero)
SummaryPertAcc == dict_get(s_out.perturbed_metrics, "accuracy", Zero)
SummaryCleanF1 == dict_get(s_out.clean_metrics, "f1_macro", Zero)
SummaryPertF1 == dict_get(s_out.perturbed_metrics, "f1_macro", Zero)

\* C13: calculate_robustness_summary never divides by zero; for accuracy
\* and for macro-F1 the absolute drop is clean - perturbed and the relative
\* drop is the absolute drop divided by the clean value, and 0.0 when the
\* clean value is 0 or missing, whatever the perturbed value.
C13_Drops ==
    s_out.called =>
        /\ ~s_out.raised
        /\ s_out.value.abs_drop_acc = RatSub(SummaryCleanAcc, SummaryPertAcc)
        /\ s_out.value.abs_drop_f1 = RatSub(SummaryCleanF1, SummaryPertF1)
        /\ s_out.value.rel_drop_acc =
            IF SummaryCleanAcc = Zero THEN Zero
            ELSE RatDiv(s_out.value.abs_drop_acc, SummaryCleanAcc)
        /\ s_out.value.rel_drop_f1 =
            IF SummaryCleanF1 = Zero THEN Zero
            ELSE RatDiv(s_out.value.abs_drop_f1, SummaryCleanF1)

\* accuracy missing from the clean record, macro-F1 0 in it, both positive
\* in the perturbed record
C13_Witness ==
    /\ s_out.called
    /\ "accuracy" \notin DOMAIN s_out.clean_metrics
    /\ SummaryCleanF1 = Zero
    /\ "f1_macro" \in DOMAIN s_out.clean_metrics
    /\ RatGt(SummaryPertAcc, Zero)
    /\ RatGt(SummaryPertF1, Zero)
    /\ ~s_out.raised
    /\ s_out.value.rel_drop_acc = Zero
    /\ s_out.value.rel_drop_f1 = Zero

(***************************************************************************)
(* Properties of the evaluation run (Spec).                                *)
(***************************************************************************)
EvaluateTaskReturned == pc \in {"ret_clean", "ret_pert"}

RunLanguages == Range(lang_order(RunData))

\* C1: when evaluate_task returns, the value is a pair (metrics_dict,
\* predictions_dict): the first part maps each language of the data set to
\* its metrics, the second maps each language to its predictions in order.
C1_ReturnsPair ==
    EvaluateTaskReturned =>
        /\ ret.shape = "pair"
        /\ DOMAIN ret.metrics = RunLanguages
        /\ DOMAIN ret.predictions = RunLanguages
        /\ \A lang \in RunLanguages :
            LET rows == files[preds_path(Cell.task, RunTag, lang)].rows
            IN  ret.predictions[lang] = [i \in DOMAIN rows |-> rows[i].prediction]

\* the keys of calculate_robustness_summary's summary, one per language of a
\* robustness report
ReportFields ==
    {"acc_clean", "acc_perturbed", "abs_drop_acc", "rel_drop_acc",
     "f1_clean", "f1_perturbed", "abs_drop_f1", "rel_drop_f1", "consistency"}

RobustnessCallOver == outcome.kind # "running"

\* C2: a call of evaluate_classification_robustness or
\* evaluate_nli_robustness in which no batch prediction fails returns a
\* report with one entry per language of the data, each entry with the nine
\* fields of ReportFields.
C2_ReportPerLanguage ==
    (RobustnessCallOver /\ outcome.error # "batch_predict") =>
        /\ outcome.kind = "returned"
        /\ DOMAIN outcome.report = Range(lang_order(CleanData))
                                       \cup Range(lang_order(PertData))
        /\ \A lang \in DOMAIN outcome.report :
            DOMAIN outcome.report[lang] = ReportFields

\* the output keys of a cell: the files its two evaluate_task runs and its
\* report are written to
output_keys(cell) ==
    {preds_path(cell.task, tag, lang) :
        tag \in {"clean", "perturbed"}, lang \in Languages \cup {"unknown"}}
    \cup {metrics_path(cell.task, tag) : tag \in {"clean", "perturbed"}}
    \cup {report_path(cell)}

\* C3: no two distinct cells (task, model, perturbation type, level) are
\* assigned the same output key: a file written for one cell is at a key
\* that no different cell of the experiment writes to.
C3_DistinctOutputKeys ==
    \A path \in DOMAIN files :
        \A j \in DOMAIN Cells :
            Cells[j] # Cells[files[path].cell] => path \notin output_keys(Cells[j])

BatchPredictFailed ==
    outcome.kind = "raised" /\ outcome.error = "batch_predict"

FailedRunData == IF outcome.during = "clean" THEN CleanData ELSE PertData

\* C8 as stated: after a failure of batch_predict the call has ended with
\* the error and the run has written no metrics document and no
\* per-language prediction table.
C8_Original ==
    BatchPredictFailed => pc = "aborted" /\ written = {}

\* C8: a failure of batch_predict ends evaluate_task with the error: nothing
\* is returned, the run writes no metrics document and no prediction table
\* for the failing language group or a later one; the tables of the groups
\* completed before the failure are the only files of the run.
C8_NoMetricsAfterFailure ==
    BatchPredictFailed =>
        /\ pc = "aborted"
        /\ ret = NoValue
        /\ groupsLeft # <<>>
        /\ metrics_path(Cell.task, outcome.during) \notin written
        /\ written = {preds_path(Cell.task, outcome.during, lang) :
                        lang \in Range(lang_order(FailedRunData))
                                    \ Range(groupsLeft)}

\* batch_predict fails for the second language group of a run
C8_Witness ==
    BatchPredictFailed /\ pc = "aborted" /\ written # {}


(***************************************************************************)
(* Properties of the perturbation generators (SpecPerturb, SpecSeeded).    *)
(***************************************************************************)
\* the languages a generator has a table for, aliases included
Supports(gen, lang) ==
    IF gen = "noise"
    THEN lower(lang) \in DOMAIN VOWELS
                            \cup {"hindi", "hind", "marathi", "bengali", "bangla",
                                  "english"}
    ELSE IF gen = "mixer" THEN lower(lang) \in DOMAIN MIXING_DICT
    ELSE \E k \in DOMAIN SYNONYMS : startswith(lower(lang), k)

\* C14 as stated: every generator, inject_noise with any noise types
\* included, returns the text unchanged when the text is empty or the
\* language is one it does not support.
C14_Original ==
    \A n \in DOMAIN p_log :
        (p_text = <<>> \/ ~Supports(p_log[n].gen, p_lang)) => p_log[n].out = p_text

\* C14: every generator returns the empty text for the empty text;
\* CodeMixer.generate, Paraphraser.generate and inject_noise with vowel_drop
\* alone return the text unchanged for a language they do not support.
C14_IdentityFallback ==
    \A n \in DOMAIN p_log :
        /\ p_text = <<>> => p_log[n].out = p_text
        /\ (/\ ~Supports(p_log[n].gen, p_lang)
            /\ p_log[n].gen = "noise" => p_log[n].variant = <<"vowel_drop">>)
           => p_log[n].out = p_text

\* vowel_drop at intensity 1 on a text with a Latin vowel, for a language
\* without a vowel set
C14_Witness ==
    /\ p_log # <<>>
    /\ p_log[1].gen = "noise"
    /\ p_log[1].variant = <<"vowel_drop">>
    /\ p_lang = "ta"
    /\ p_level = One
    /\ "a" \in Range(p_text)
    /\ p_log[1].out = p_text

\* C15: with intensity 0 every generator returns the text unchanged,
\* character for character, for every text and language.
C15_ZeroIntensityIdentity ==
    \A n \in DOMAIN p_log : p_level = Zero => p_log[n].out = p_text

(***************************************************************************)
(* SpecSeeded.                                                             *)
(***************************************************************************)
\* C16: two invocations of a generator with the same seed, at the same
\* place of its call sequence and undisturbed by other generators, on the
\* same text, language and intensity return the same text.
C16_Deterministic ==
    \A m, n \in DOMAIN p_log :
        (/\ p_log[m].gen = p_log[n].gen
         /\ p_log[m].variant = p_log[n].variant
         /\ p_log[m].seed = p_log[n].seed
         /\ p_log[m].own_calls = p_log[n].own_calls
         /\ p_log[m].fresh /\ p_log[n].fresh)
        => p_log[m].out = p_log[n].out


(***************************************************************************)
(* Properties of the error analyses (SpecDeep).                            *)
(***************************************************************************)
\* the threshold the deep analysis was called with
ThresholdUsed ==
    IF "threshold" \in DOMAIN a_call THEN a_call.threshold ELSE DefaultThreshold

\* the rows of the perturbed table in the directory
PertRows == csv[PertName].rows

CleanRows == csv[CleanName].rows

\* the saved cases of one type
CasesOfType(type) ==
    {i \in DOMAIN a_out.error_cases : a_out.error_cases[i].type = type}

\* the ids saved as high-confidence failures
FlaggedIds ==
    {a_out.error_cases[i].id : i \in CasesOfType("high_confidence_failure")}

\* the ids whose perturbed prediction differs from the label with a
\* confidence strictly above the threshold: score > threshold as fractions
WrongAndSureIds ==
    {PertRows[i].id : i \in
        {j \in DOMAIN PertRows :
            /\ PertRows[j].prediction # PertRows[j].label
            /\ PertRows[j].score[1] * ThresholdUsed[2]
                  > ThresholdUsed[1] * PertRows[j].score[2]}}

\* C17: run_deep_error_analysis flags a joined row as a high-confidence
\* failure exactly when the perturbed prediction differs from the label and
\* the perturbed confidence is strictly greater than the threshold (0.9 when
\* none is given); a row whose confidence equals the threshold is not
\* flagged.  Of more than five such rows, the first five are saved.
C17_HighConfidenceExactly ==
    DeepReturned =>
        /\ FlaggedIds \subseteq WrongAndSureIds
        /\ Cardinality(WrongAndSureIds) <= QualitativeCap
              => FlaggedIds = WrongAndSureIds
        /\ \A i \in DOMAIN PertRows :
              PertRows[i].score = ThresholdUsed => PertRows[i].id \notin FlaggedIds

\* a wrong perturbed prediction with exactly the default confidence 0.9 is
\* left out while a wrong one above it is flagged
C17_Witness ==
    /\ DeepReturned
    /\ ThresholdUsed = Rat(9, 10)
    /\ \E i, j \in DOMAIN PertRows :
        /\ PertRows[i].prediction # PertRows[i].label
        /\ PertRows[i].score = Rat(9, 10)
        /\ PertRows[i].id \notin FlaggedIds
        /\ PertRows[j].prediction # PertRows[j].label
        /\ PertRows[j].id \in FlaggedIds

AnalyzeErrorsReturned == a_call.fn = "analyze_errors"

\* the rows whose prediction changed between the two tables
FlippedRows ==
    {i \in DOMAIN CleanRows : CleanRows[i].prediction # PertRows[i].prediction}

\* C18 as stated: at most five example rows are retained for the (task,
\* language, perturbation) cell
C18_Original ==
    /\ DeepReturned => Len(a_out.error_cases) <= QualitativeCap
    /\ AnalyzeErrorsReturned /\ "samples" \in DOMAIN a_out.report
          => Cardinality(a_out.report.samples) <= DefaultSampleSize

\* C18: per cell run_deep_error_analysis retains at most five prediction
\* flips and at most five high-confidence failures, the first ones of the
\* joined table, hence at most ten rows; analyze_errors retains
\* min(flip count, 5) flipped rows.
C18_CapPerType ==
    /\ DeepReturned =>
        /\ Cardinality(CasesOfType("prediction_flip"))
              = (IF Cardinality(FlippedRows) < QualitativeCap
                 THEN Cardinality(FlippedRows) ELSE QualitativeCap)
        /\ Cardinality(CasesOfType("high_confidence_failure"))
              = (IF Cardinality(WrongAndSureIds) < QualitativeCap
                 THEN Cardinality(WrongAndSureIds) ELSE QualitativeCap)
        /\ Len(a_out.error_cases) <= 2 * QualitativeCap
    /\ AnalyzeErrorsReturned /\ "samples" \in DOMAIN a_out.report =>
        /\ Cardinality(a_out.report.samples)
              = (IF Cardinality(FlippedRows) < DefaultSampleSize
                 THEN Cardinality(FlippedRows) ELSE DefaultSampleSize)
        /\ \A r \in a_out.report.samples :
              \E i \in FlippedRows : r.id = CleanRows[i].id

\* more than five rows flipped, each with a sure wrong prediction: five of
\* each type saved, ten rows for the cell
C18_Witness ==
    /\ DeepReturned
    /\ Cardinality(FlippedRows) > QualitativeCap
    /\ Cardinality(WrongAndSureIds) > QualitativeCap
    /\ Cardinality(CasesOfType("prediction_flip")) = QualitativeCap
    /\ Len(a_out.error_cases) = 2 * QualitativeCap


(***************************************************************************)
(* Properties of the file names (SpecNames).                               *)
(***************************************************************************)
\* what a file was saved for, when it was saved for one triple only
SavedAs(name) == CHOOSE key \in csv[name].saved_as : TRUE

\* C19: the name {task}_{perturbation}_{language}_preds.csv is taken apart
\* by analyze_errors, run_deep_error_analysis and run_analysis_on_directory
\* into the task, perturbation and language it was saved for, and no two
\* different triples are saved under one name.
C19_NamesRoundTrip ==
    /\ \A name \in DOMAIN csv : Cardinality(csv[name].saved_as) = 1
    /\ "file_map" \in DOMAIN a_out =>
          \A name \in DOMAIN csv :
              /\ name \in DOMAIN a_out.file_map
              /\ a_out.file_map[name] = SavedAs(name)
    /\ "pairs" \in DOMAIN a_out =>
          \A pair \in a_out.pairs :
              /\ SavedAs(pair.clean_file).task = pair.task
              /\ SavedAs(pair.clean_file).lang = pair.lang
              /\ SavedAs(pair.pert_file).task = pair.task
              /\ SavedAs(pair.pert_file).lang = pair.lang
              /\ SavedAs(pair.pert_file).perturbation = pair.perturbation


(***************************************************************************)
(* Properties of the grouping by language (Spec).                          *)
(***************************************************************************)
\* an evaluate_task run is under way or has just returned
InEvaluateTask == pc \in {"eval_clean", "eval_pert", "ret_clean", "ret_pert"}

\* the places of a dataset that hold examples of a language
PlacesOf(dataset, lang) ==
    {i \in DOMAIN dataset : language_of(dataset[i]) = lang}

\* the k-th smallest place of S
NthPlace(S, k) == CHOOSE i \in S : Cardinality({j \in S : j <= i}) = k

\* the id column of a prediction table
IdColumn(path) ==
    LET rows == files[path].rows
    IN  [k \in DOMAIN rows |-> rows[k].id]

\* C20: evaluate_task puts every example into exactly one language group,
\* a group holds its examples in the order of the dataset, and so the
\* tables of the clean and of the perturbed run of a cell list the same ids
\* at the same places for each language.
C20_GroupsKeepOrder ==
    InEvaluateTask =>
        LET data == RunData
            order == lang_order(data)
            task == Cell.task
        IN  /\ \A i \in DOMAIN data :
                  Cardinality({k \in DOMAIN order :
                      order[k] = language_of(data[i])}) = 1
            \* groupsLeft is what remains of the groups in their order
            /\ \E n \in 0..Len(order) :
                  groupsLeft = SubSeq(order, n + 1, Len(order))
            /\ \A lang \in Range(order) :
                  preds_path(task, RunTag, lang) \in written =>
                      LET ids == IdColumn(preds_path(task, RunTag, lang))
                          places == PlacesOf(data, lang)
                      IN  /\ lang \notin Range(groupsLeft)
                          /\ Len(ids) = Cardinality(places)
                          /\ \A k \in DOMAIN ids :
                                ids[k] = data[NthPlace(places, k)].id
            /\ RunTag = "perturbed" =>
                  \A lang \in Range(order) :
                      (/\ preds_path(task, "perturbed", lang) \in written
                       /\ preds_path(task, "clean", lang) \in DOMAIN files)
                      => IdColumn(preds_path(task, "perturbed", lang))
                            = IdColumn(preds_path(task, "clean", lang))

\* the perturbed run returned with two languages evaluated in both runs,
\* their tables listing the same ids
C20_Witness ==
    /\ pc = "ret_pert"
    /\ Len(lang_order(PertData)) = 2
    /\ \A lang \in Range(lang_order(PertData)) :
          /\ preds_path(Cell.task, "perturbed", lang) \in written
          /\ preds_path(Cell.task, "clean", lang) \in DOMAIN files
          /\ IdColumn(preds_path(Cell.task, "clean", lang)) # <<>>
          /\ IdColumn(preds_path(Cell.task, "perturbed", lang))
                = IdColumn(preds_path(Cell.task, "clean", lang))


(***************************************************************************)
(* Properties of the inputs handed to the model (Spec).                    *)
(***************************************************************************)
\* the example behind row k of the prediction table of a language
ExampleOfRow(data, lang, k) == data[NthPlace(PlacesOf(data, lang), k)]

\* json.dumps({'premise': p, 'hypothesis': h}, ensure_ascii=False)
PairAsJson(p, h) ==
    "{\"premise\": \"" \o p \o "\", \"hypothesis\": \"" \o h \o "\"}"

\* C21: evaluate_task hands the model the {premise, hypothesis} pair exactly
\* when the example has both, otherwise its text field, and the empty
\* string when it has no text field; the table saved for the group lists
\* these inputs, so the run did not raise on them.
C21_InputForm ==
    InEvaluateTask =>
        LET data == RunData
            task == Cell.task
        IN  \A lang \in Range(lang_order(data)) :
                preds_path(task, RunTag, lang) \in written =>
                    LET rows == files[preds_path(task, RunTag, lang)].rows
                    IN  \A k \in DOMAIN rows :
                            LET ex == ExampleOfRow(data, lang, k)
                            IN  rows[k].text =
                                    IF "premise" \in DOMAIN ex
                                       /\ "hypothesis" \in DOMAIN ex
                                    THEN PairAsJson(ex.premise, ex.hypothesis)
                                    ELSE IF "text" \in DOMAIN ex THEN ex.text
                                    ELSE ""

\* a run over examples without any text field returned, each handed on as
\* the empty string
C21_Witness ==
    /\ pc = "ret_clean"
    /\ RunData # <<>>
    /\ \A i \in DOMAIN RunData :
          /\ "text" \notin DOMAIN RunData[i]
          /\ "premise" \notin DOMAIN RunData[i]
          /\ preds_path(Cell.task, "clean", language_of(RunData[i])) \in written
    /\ \A path \in written :
          files[path].kind = "predictions" =>
              \A k \in DOMAIN files[path].rows : files[path].rows[k].text = ""


(***************************************************************************)
(* Properties of the character noise (SpecPerturb).                        *)
(***************************************************************************)
\* the calls of inject_noise with the noise types given
NoiseCalls(noise_types) ==
    {n \in DOMAIN p_log : p_log[n].gen = "noise" /\ p_log[n].variant = noise_types}

\* the ways to move the characters of text so that out results and no
\* character ends more than reach places from where it started
Moves(text, out, reach) ==
    {f \in [DOMAIN text -> DOMAIN text] :
        /\ \A i, j \in DOMAIN text : f[i] = f[j] => i = j
        /\ \A i \in DOMAIN text : out[f[i]] = text[i]
        /\ \A i \in DOMAIN text : f[i] - i <= reach /\ i - f[i] <= reach}

\* C22: random_swap makes one pass from left to right over the adjacent
\* pairs and swaps no position twice in it, so every character ends at most
\* one place away from where it started.
C22_SwapMovesOnePlace ==
    \A n \in NoiseCalls(<<"swap">>) :
        /\ Len(p_log[n].out) = Len(p_text)
        /\ Moves(p_text, p_log[n].out, 1) # {}

\* the steps of a list of noise types, each on the output of the one before
RECURSIVE steps_in_list_order(_, _, _)
steps_in_list_order(text, noise_types, state) ==
    IF noise_types = <<>> THEN text
    ELSE LET r == noise_step(Head(noise_types), text, p_level, p_lang, state)
         IN  steps_in_list_order(r.text, Tail(noise_types), r.rng)

\* the output of deletion, then swap, then vowel-drop for the noise types
\* of a list
OutputInFixedOrder(noise_types, state) ==
    inject_noise_fixed_order(p_text, noise_types, p_level, p_lang, state).text

\* C23 as stated: several noise types are applied as deletion, then swap,
\* then vowel-drop, each to the output of the one before
C23_Original ==
    \A n \in DOMAIN p_log :
        (p_log[n].gen = "noise" /\ Len(p_log[n].variant) > 1)
        => p_log[n].out = OutputInFixedOrder(p_log[n].variant, p_log[n].rng_before)

\* C23: inject_noise applies the noise types in the order of the list it is
\* given, each to the output of the one before; for the list delete, swap,
\* vowel_drop that is deletion, then swap, then vowel-drop.
C23_ListOrder ==
    \A n \in DOMAIN p_log :
        p_log[n].gen = "noise" =>
            /\ p_log[n].out = steps_in_list_order(p_text, p_log[n].variant,
                                                  p_log[n].rng_before)
            /\ p_log[n].variant = <<"delete", "swap", "vowel_drop">>
                  => p_log[n].out = OutputInFixedOrder(p_log[n].variant,
                                                       p_log[n].rng_before)

\* with p = 1 no draw decides anything: vowel_drop listed before swap gave
\* another text than swap followed by vowel-drop gives
C23_Witness ==
    \E n \in NoiseCalls(<<"vowel_drop", "swap">>) :
        /\ p_level = One
        /\ p_log[n].out # OutputInFixedOrder(p_log[n].variant, p_log[n].rng_before)
        /\ p_log[n].out = steps_in_list_order(p_text, p_log[n].variant,
                                              p_log[n].rng_before)


\* the vowel set vowel_drop uses for a language it recognizes
VowelsOf(lang) == VOWELS[vowel_lang(lang)]

\* C24: vowel_drop with p = 1.0 returns the empty string for a text made
\* only of vowels of the given supported language and the text unchanged
\* when it holds no vowel of that language; for a language it does not
\* recognize it returns the text unchanged for every p.
C24_VowelDropAtOne ==
    \A n \in NoiseCalls(<<"vowel_drop">>) :
        IF Supports("noise", p_lang)
        THEN p_level = One =>
                /\ (\A i \in DOMAIN p_text : p_text[i] \in VowelsOf(p_lang))
                      => p_log[n].out = <<>>
                /\ (\A i \in DOMAIN p_text : p_text[i] \notin VowelsOf(p_lang))
                      => p_log[n].out = p_text
        ELSE p_log[n].out = p_text

\* a text of vowels only came back empty
C24_Witness ==
    \E n \in NoiseCalls(<<"vowel_drop">>) :
        /\ Supports("noise", p_lang)
        /\ p_level = One
        /\ Len(p_text) > 1
        /\ \A i \in DOMAIN p_text : p_text[i] \in VowelsOf(p_lang)
        /\ p_log[n].out = <<>>


\* the calls of one noise primitive
PrimitiveCalls ==
    NoiseCalls(<<"delete">>) \cup NoiseCalls(<<"swap">>)
        \cup NoiseCalls(<<"vowel_drop">>)

\* C25: random_deletion, random_swap and vowel_drop called with p = 0
\* return the text as it is and make no draw: the random source is in the
\* state it was in before the call.
C25_ZeroMakesNoDraw ==
    \A n \in PrimitiveCalls :
        p_level = Zero =>
            /\ p_log[n].out = p_text
            /\ p_log[n].rng_after = p_log[n].rng_before
            /\ rng = p_log[n].rng_before

\* random_deletion returned a text of several characters with p = 0
C25_Witness ==
    \E n \in NoiseCalls(<<"delete">>) :
        /\ p_level = Zero
        /\ Len(p_text) > 1
        /\ p_log[n].out = p_text
        /\ rng = p_log[n].rng_before


(***************************************************************************)
(* Properties of CodeMixer and Paraphraser (SpecPerturb).                  *)
(***************************************************************************)
\* the state of the random source after j draws
RECURSIVE AfterDraws(_, _)
AfterDraws(state, j) == IF j = 0 THEN state ELSE AfterDraws(rng_next(state), j - 1)

\* the value of the j-th draw made from state on
NthDraw(state, j) == Rat(AfterDraws(state, j), RngModulus)

\* the part of a value before its first '/'
BeforeSlash(value) ==
    IF \E i \in DOMAIN value : value[i] = "/"
    THEN SubSeq(value, 1, (CHOOSE i \in DOMAIN value :
                              /\ value[i] = "/"
                              /\ \A j \in 1..(i - 1) : value[j] # "/") - 1)
    ELSE value

\* C26: for a supported language CodeMixer.generate gives one token per
\* whitespace-delimited token of the text, in the same order: the token
\* itself, unless the token without its punctuation is a key of the
\* dictionary and its draw is below the mixing ratio; then the part of the
\* dictionary value before the first '/', which holds no '/'.
C26_TokenByToken ==
    \A n \in DOMAIN p_log :
        (p_log[n].gen = "mixer" /\ Supports("mixer", p_lang)) =>
            LET vocab == MIXING_DICT[lower(p_lang)]
                tokens == split(p_text)
                mixed == split(p_log[n].out)
                is_key(k) == strip(tokens[k], MixPunctuation) \in DOMAIN vocab
                draw(k) == NthDraw(p_log[n].rng_before,
                                   Cardinality({j \in 1..k : is_key(j)}))
            IN  /\ Len(mixed) = Len(tokens)
                /\ \A k \in DOMAIN tokens :
                      IF is_key(k) /\ RatGt(p_level, draw(k))
                      THEN /\ mixed[k] = BeforeSlash(
                                  vocab[strip(tokens[k], MixPunctuation)])
                           /\ \A i \in DOMAIN mixed[k] : mixed[k][i] # "/"
                      ELSE mixed[k] = tokens[k]

\* of two tokens that are keys one was kept and the other replaced
C26_Witness ==
    \E n \in DOMAIN p_log :
        /\ p_log[n].gen = "mixer"
        /\ Supports("mixer", p_lang)
        /\ Len(split(p_text)) = 2
        /\ Len(split(p_log[n].out)) = 2
        /\ split(p_log[n].out)[1] = split(p_text)[1]
        /\ split(p_log[n].out)[2] # split(p_text)[2]

\* C27: Paraphraser.generate called with a strategy other than 'synonym'
\* returns the text as paraphrased text, for every text, language and
\* substitution rate, and makes no draw from the random source.
C27_UnknownStrategyIdentity ==
    \A n \in DOMAIN p_log :
        (p_log[n].gen = "paraphraser" /\ p_log[n].variant # <<"synonym">>) =>
            /\ p_log[n].out = p_text
            /\ p_log[n].rng_after = p_log[n].rng_before
            /\ rng = p_log[n].rng_before

\* a text holding a word with synonyms came back as it was at rate 1
C27_Witness ==
    \E n \in DOMAIN p_log :
        /\ p_log[n].gen = "paraphraser"
        /\ p_log[n].variant = <<"backtranslate">>
        /\ p_level = One
        /\ Supports("paraphraser", p_lang)
        /\ \E k \in DOMAIN split(p_text) :
              split(p_text)[k] \in DOMAIN SYNONYMS[synonym_lang(p_lang)]
        /\ p_log[n].out = p_text
        /\ rng = p_log[n].rng_before

\* how often c occurs in text
Count(text, c) == Cardinality({i \in DOMAIN text : text[i] = c})

\* out is text with some characters left out
RECURSIVE IsSubsequence(_, _)
IsSubsequence(out, text) ==
    IF out = <<>> THEN TRUE
    ELSE IF text = <<>> THEN FALSE
    ELSE IF Head(out) = Head(text) THEN IsSubsequence(Tail(out), Tail(text))
    ELSE IsSubsequence(out, Tail(text))

\* the characters of text outside S, in their order
Without(text, S) == SelectSeq(text, LAMBDA c : c \notin S)

\* C29: random_swap returns the characters of the text in some order, as
\* many of each as before; random_deletion and vowel_drop return the text
\* with some characters left out, the others in their order; vowel_drop
\* leaves out vowels of the language only.
C29_PermutationAndSubsequence ==
    /\ \A n \in NoiseCalls(<<"swap">>) :
          /\ Len(p_log[n].out) = Len(p_text)
          /\ \A c \in Chars : Count(p_log[n].out, c) = Count(p_text, c)
    /\ \A n \in NoiseCalls(<<"delete">>) : IsSubsequence(p_log[n].out, p_text)
    /\ \A n \in NoiseCalls(<<"vowel_drop">>) :
          /\ IsSubsequence(p_log[n].out, p_text)
          /\ LET vowels == IF Supports("noise", p_lang) THEN VowelsOf(p_lang)
                           ELSE {}
             IN  Without(p_log[n].out, vowels) = Without(p_text, vowels)

\* a swap changed the text
C29_Witness ==
    \E n \in NoiseCalls(<<"swap">>) :
        /\ p_log[n].out # p_text
        /\ Len(p_log[n].out) = Len(p_text)
        /\ \A c \in Chars : Count(p_log[n].out, c) = Count(p_text, c)

(***************************************************************************)
(* Properties of generators used side by side (SpecSeeded).                *)
(***************************************************************************)
\* C28: what a call of a CodeMixer or Paraphraser returns depends only on
\* the seed of the instance and on its own earlier calls: two calls on the
\* same input by instances of the same seed with the same number of earlier
\* calls return the same text, whatever other generators were constructed
\* or called in between.
C28_OwnSeedAndCallsOnly ==
    \A m, n \in DOMAIN p_log :
        (/\ p_log[m].gen \in {"mixer", "paraphraser"}
         /\ p_log[m].gen = p_log[n].gen
         /\ p_log[m].variant = p_log[n].variant
         /\ p_log[m].seed = p_log[n].seed
         /\ p_log[m].own_calls = p_log[n].own_calls)
        => p_log[m].out = p_log[n].out

(***************************************************************************)
(* Properties of the flip analyses side by side (SpecAgree).               *)
(***************************************************************************)
\* what analyze_pair makes of the clean and the perturbed table of the
\* directory, and what analyze_errors makes of them
PairOfCell == analyze_pair(csv[CleanName], csv[PertName], ReportPath)

ErrorsOfCell == analyze_errors_cell(csv)

\* the two tables share an id
CellJoins == IdsOf(CleanRows) \cap IdsOf(PertRows) # {}

\* analyze_pair was called on the clean and the perturbed table
PairCalledOnCell ==
    /\ AnalyzePairReturned
    /\ a_call.clean = CleanName
    /\ a_call.pert = PertName

\* the joined rows analyze_pair marks is_consistent false, as run_deep_error_analysis
\* would save them
InconsistentRows ==
    LET m == SelectSeq(PairOfCell.merged, LAMBDA r : ~r.is_consistent)
    IN  [i \in DOMAIN m |-> <<m[i].id, m[i].prediction_clean, m[i].prediction_pert>>]

\* the rows run_deep_error_analysis saved as flips
SavedFlips ==
    LET f == SelectSeq(a_out.error_cases, LAMBDA c : c.type = "prediction_flip")
    IN  [i \in DOMAIN f |-> <<f[i].id, f[i].pred_clean, f[i].pred_perturbed>>]

\* the counts of the two analyses agree, and the flips of the deep analysis
\* are the rows marked inconsistent
CountsAgree ==
    /\ (AnalyzeErrorsReturned /\ CellJoins)
       => /\ a_out.report.total_samples = PairOfCell.ret.total_samples
          /\ a_out.report.flip_count = PairOfCell.ret.flipped_count
    /\ (PairCalledOnCell /\ CellJoins)
       => /\ a_out.ret.total_samples = ErrorsOfCell.total_samples
          /\ a_out.ret.flipped_count = ErrorsOfCell.flip_count
    /\ (DeepReturned /\ CellJoins)
       => SavedFlips = Head_n(InconsistentRows, QualitativeCap)

\* C30 as stated: for tables with a non-empty id intersection analyze_errors
\* reports the same total_samples, flip count and flip_rate as analyze_pair
\* reports as total_samples, flipped_count and flip_rate, and the rows
\* run_deep_error_analysis treats as flips are the rows analyze_pair marks
\* is_consistent false.
C30_Original ==
    /\ CountsAgree
    /\ (AnalyzeErrorsReturned /\ CellJoins)
       => a_out.report.flip_rate = PairOfCell.ret.flip_rate
    /\ (PairCalledOnCell /\ CellJoins)
       => a_out.ret.flip_rate = ErrorsOfCell.flip_rate

\* C30 amended: total_samples and the flip counts are the same and the flips
\* of run_deep_error_analysis are the rows marked is_consistent false; the two
\* flip_rates are the doubles nearest to or next to the same fraction: the
\* same double for a join of 1, 2 or 4 rows and for a join with no or only
\* flips, different doubles for a join of 3 rows with 1 or 2 flips.
C30_FlipAnalysesAgree ==
    /\ CountsAgree
    /\ (AnalyzeErrorsReturned /\ CellJoins)
       => LET mine == a_out.report.flip_rate
              other == PairOfCell.ret.flip_rate
              t == a_out.report.total_samples
              f == a_out.report.flip_count
          IN  /\ mine = nearest_fraction(other)
              /\ (t \in {1, 2, 4} \/ f \in {0, t}) => mine = other
              /\ (t = 3 /\ f \in {1, 2}) => mine # other
    /\ (PairCalledOnCell /\ CellJoins)
       => LET mine == a_out.ret.flip_rate
              other == ErrorsOfCell.flip_rate
              t == a_out.ret.total_samples
              f == a_out.ret.flipped_count
          IN  /\ nearest_fraction(mine) = other
              /\ (t \in {1, 2, 4} \/ f \in {0, t}) => mine = other
              /\ (t = 3 /\ f \in {1, 2}) => mine # other

\* analyze_errors on a join of three rows with one flip: the counts of
\* analyze_pair are the same, its flip_rate is the next double
C30_Witness ==
    /\ AnalyzeErrorsReturned /\ CellJoins
    /\ a_out.report.total_samples = 3
    /\ a_out.report.flip_count = 1
    /\ PairOfCell.ret.flipped_count = 1
    /\ a_out.report.flip_rate = Rat(1, 3)
    /\ PairOfCell.ret.flip_rate = <<1, 3, 1>>

====
